---- MODULE Spec2Model ----
(***************************************************************************)
(* A model of query-tests/scripts/compare-results.py: the comparison of a  *)
(* MongoDB result set with an Oracle result set.                           *)
(*                                                                         *)
(* Python values are tagged records; a str is a tuple of one-character     *)
(* strings, so that strip, upper, lower, float() and str() are computed    *)
(* character by character.  A number is a count of units of 1e-7, together *)
(* with the representation error of the IEEE-754 double nearest to that    *)
(* decimal (DoubleErr), which decides the comparisons that fall exactly on *)
(* a boundary.                                                             *)
(***************************************************************************)
EXTENDS Integers, Sequences, FiniteSets, TLC

(***************************************************************************)
(* Characters and strings                                                  *)
(***************************************************************************)

\* The characters the model uses, in code point order.
Alphabet ==
    << " ", "\"", "'", ",", "-", ".",
       "0", "1", "2", "3", "4", "5", "6", "7", "8", "9", ":",
       "A", "B", "C", "D", "E", "F", "G", "H", "I", "J", "K", "L", "M",
       "N", "O", "P", "Q", "R", "S", "T", "U", "V", "W", "X", "Y", "Z",
       "[", "\\", "]", "_",
       "a", "b", "c", "d", "e", "f", "g", "h", "i", "j", "k", "l", "m",
       "n", "o", "p", "q", "r", "s", "t", "u", "v", "w", "x", "y", "z",
       "{", "}" >>

CharSet == { Alphabet[i] : i \in 1..Len(Alphabet) }

CharCode == [ c \in CharSet |-> CHOOSE i \in 1..Len(Alphabet) : Alphabet[i] = c ]

\* The distance between a capital and its small letter in Alphabet.
CaseGap == CharCode["a"] - CharCode["A"]

IsUpperChar(c) == CharCode[c] >= CharCode["A"] /\ CharCode[c] <= CharCode["Z"]
IsLowerChar(c) == CharCode[c] >= CharCode["a"] /\ CharCode[c] <= CharCode["z"]
IsDigit(c) == CharCode[c] >= CharCode["0"] /\ CharCode[c] <= CharCode["9"]
DigitVal(c) == CharCode[c] - CharCode["0"]
DigitChar(d) == Alphabet[CharCode["0"] + d]

UpperChar(c) == IF IsLowerChar(c) THEN Alphabet[CharCode[c] - CaseGap] ELSE c
LowerChar(c) == IF IsUpperChar(c) THEN Alphabet[CharCode[c] + CaseGap] ELSE c

\* str.upper() and str.lower()
StrUpper(s) == [ i \in 1..Len(s) |-> UpperChar(s[i]) ]
StrLower(s) == [ i \in 1..Len(s) |-> LowerChar(s[i]) ]

RECURSIVE LStrip(_, _)
LStrip(s, cs) ==
    IF s # <<>> /\ Head(s) \in cs THEN LStrip(Tail(s), cs) ELSE s

RECURSIVE RStrip(_, _)
RStrip(s, cs) ==
    IF s # <<>> /\ s[Len(s)] \in cs THEN RStrip(SubSeq(s, 1, Len(s) - 1), cs) ELSE s

\* str.strip(chars): every leading and trailing character of cs is removed.
StripChars(s, cs) == RStrip(LStrip(s, cs), cs)

\* str.strip(): the whitespace of the model's alphabet is the blank.
StripSpace(s) == StripChars(s, {" "})

\* str.startswith
StartsWith(s, p) == Len(s) >= Len(p) /\ SubSeq(s, 1, Len(p)) = p

\* s < t for two str: lexicographic in code point order.
RECURSIVE StrLess(_, _)
StrLess(s, t) ==
    IF t = <<>> THEN FALSE
    ELSE IF s = <<>> THEN TRUE
    ELSE IF Head(s) # Head(t) THEN CharCode[Head(s)] < CharCode[Head(t)]
    ELSE StrLess(Tail(s), Tail(t))

RECURSIVE JoinStr(_, _)
JoinStr(parts, sep) ==
    IF parts = <<>> THEN <<>>
    ELSE IF Len(parts) = 1 THEN parts[1]
    ELSE parts[1] \o sep \o JoinStr(Tail(parts), sep)

RECURSIVE NatStr(_)
NatStr(n) ==
    IF n < 10 THEN << DigitChar(n) >>
    ELSE NatStr(n \div 10) \o << DigitChar(n % 10) >>

(***************************************************************************)
(* Python values                                                           *)
(***************************************************************************)

Mk(k, b, n, s, xs) == [ k |-> k, b |-> b, n |-> n, s |-> s, xs |-> xs ]

PyNone == Mk("none", FALSE, 0, <<>>, <<>>)
PyBool(b) == Mk("bool", b, 0, <<>>, <<>>)
\* n counts units of 1e-7: PyInt holds whole numbers only.
PyInt(n) == Mk("int", FALSE, n, <<>>, <<>>)
PyFloat(n) == Mk("float", FALSE, n, <<>>, <<>>)
\* The float -0.0: a zero with its sign set, the one negative number of the
\* model.  b holds the sign.
PyNegZero == Mk("float", TRUE, 0, <<>>, <<>>)
\* float('nan'): a float that equals nothing, itself included.
PyNaN == Mk("nan", FALSE, 0, <<>>, <<>>)
PyStr(s) == Mk("str", FALSE, 0, s, <<>>)
PyList(xs) == Mk("list", FALSE, 0, <<>>, xs)
\* A dict is the sequence of its items, in insertion order, with distinct keys.
PyDict(items) == Mk("dict", FALSE, 0, <<>>, items)
\* The set {n} of one whole number: a value of a kind JSON has no text for.
PySet(n) == Mk("set", FALSE, n, <<>>, <<>>)
Item(key, val) == [ key |-> key, val |-> val ]

IsNone(v) == v.k = "none"
IsBool(v) == v.k = "bool"
IsStr(v) == v.k = "str"
IsList(v) == v.k = "list"
IsDict(v) == v.k = "dict"
\* isinstance(v, (int, float)): bool is a subclass of int.
IsIntOrFloat(v) == v.k \in {"bool", "int", "float", "nan"}

\* type(v).__name__
TypeName(v) ==
    CASE v.k = "none" -> "NoneType"
      [] v.k = "nan" -> "float"
      [] OTHER -> v.k

(***************************************************************************)
(* Numbers                                                                 *)
(***************************************************************************)

\* 1.0 in units of 1e-7.
One == 10000000

\* The sixth decimal place, which round(x, 6) keeps, in units of 1e-7.
Micro == 10

\* The tolerance 0.0001 of values_equal in units of 1e-7.
Tolerance == 1000

\* The double nearest to 0.0001 exceeds it by 4.79e-21: 48 units of 1e-22.
ToleranceErr == 48

\* double(d) - d in units of 1e-22 for the decimals d (in units of 1e-7) the
\* model's numbers take.  Whole numbers are exact.
DoubleErr(n) ==
    IF n % One = 0 THEN 0
    ELSE CASE n = 1000 -> 48
           [] n = 5000000 -> 0
           [] n = 10000004 -> 115023
           [] n = 10000005 -> 698890
           [] n = 10000010 -> -822666
           [] n = 10000015 -> -123777
           [] n = 10000500 -> 1055156
           [] n = 10001000 -> -110134
           [] n = 10002000 -> -220268
           [] n = 20001000 -> 2110312

\* round(x, 6) of the double nearest to n: to the nearest multiple of 1e-6.  A
\* decimal tie is decided by the side the double lies on, and by the even
\* digit when the double is the tie itself.
Round6(n) ==
    LET low == n - (n % Micro)
        r == n % Micro
        half == Micro \div 2
    IN  IF r < half THEN low
        ELSE IF r > half THEN low + Micro
        ELSE IF DoubleErr(n) > 0 THEN low + Micro
        ELSE IF DoubleErr(n) < 0 THEN low
        ELSE IF (low \div Micro) % 2 = 0 THEN low ELSE low + Micro

\* The number a bool, an int or a float stands for: True is 1, False is 0.
NumOf(v) == IF v.k = "bool" THEN (IF v.b THEN One ELSE 0) ELSE v.n

\* abs(float(a) - float(b)) < 0.0001 in double arithmetic.  The subtraction of
\* two doubles this close is exact, so off the boundary the decimals decide
\* and on it the representation errors do.  A nan compares False.
\* A tolerance that takes in a difference of exactly 0.0001.
AbsDiffWithinTolerance(a, b) ==
    a.k # "nan" /\ b.k # "nan" /\ NumOf(a) - NumOf(b) \in -Tolerance..Tolerance

AbsDiffBelowTolerance(a, b) ==
    IF a.k = "nan" \/ b.k = "nan" THEN FALSE
    ELSE LET x == NumOf(a)
             y == NumOf(b)
             hi == IF x >= y THEN x ELSE y
             lo == IF x >= y THEN y ELSE x
         IN  IF hi - lo # Tolerance THEN hi - lo < Tolerance
             ELSE DoubleErr(hi) - DoubleErr(lo) < ToleranceErr

(***************************************************************************)
(* dict and list primitives                                                *)
(***************************************************************************)

DictKeys(d) == { d.xs[i].key : i \in 1..Len(d.xs) }

\* key in d
DictHas(d, key) == key \in DictKeys(d)

\* d[key]
DictAt(d, key) == d.xs[CHOOSE i \in 1..Len(d.xs) : d.xs[i].key = key].val

\* d.get(key, default)
DictGet(d, key, default) == IF DictHas(d, key) THEN DictAt(d, key) ELSE default

\* An assignment that leaves a key that is there as it is.
DictSetFirstWins(items, key, val) ==
    IF \E i \in 1..Len(items) : items[i].key = key THEN items
    ELSE Append(items, Item(key, val))

\* result[key] = val on the item sequence: an existing key keeps its place.
DictSet(items, key, val) ==
    IF \E i \in 1..Len(items) : items[i].key = key
    THEN [ i \in 1..Len(items) |->
             IF items[i].key = key THEN Item(key, val) ELSE items[i] ]
    ELSE Append(items, Item(key, val))

\* a == b in Python.  Numbers compare by value whatever their type, and a bool
\* is the number 1 or 0; two dicts are equal when they hold the same keys with
\* equal values, in any order; nan equals nothing.
RECURSIVE PyEq(_, _)
PyEq(a, b) ==
    CASE a.k = "nan" \/ b.k = "nan" -> FALSE
      [] a.k \in {"bool", "int", "float"} /\ b.k \in {"bool", "int", "float"} ->
            NumOf(a) = NumOf(b)
      [] a.k = "none" /\ b.k = "none" -> TRUE
      [] a.k = "str" /\ b.k = "str" -> a.s = b.s
      [] a.k = "list" /\ b.k = "list" ->
            /\ Len(a.xs) = Len(b.xs)
            /\ \A i \in 1..Len(a.xs) : PyEq(a.xs[i], b.xs[i])
      [] a.k = "dict" /\ b.k = "dict" ->
            /\ DictKeys(a) = DictKeys(b)
            /\ \A key \in DictKeys(a) : PyEq(DictAt(a, key), DictAt(b, key))
      [] a.k = "set" /\ b.k = "set" -> a.n = b.n
      [] OTHER -> FALSE

(***************************************************************************)
(* str(), repr(), json.dumps() and float()                                 *)
(***************************************************************************)

\* The seven digits after the point of n, without the trailing zeros.
FracDigits(n) ==
    LET d == NatStr(n % One)
        pad == [ i \in 1..(7 - Len(d)) |-> "0" ]
        cut == RStrip(pad \o d, {"0"})
    IN  IF cut = <<>> THEN << "0" >> ELSE cut

\* repr of the double nearest to n, which is the shortest decimal that reads
\* back as that double: positional from 0.0001 on, with an exponent below.
FloatStr(n) ==
    IF n = 0 \/ n >= Tolerance
    THEN NatStr(n \div One) \o << "." >> \o FracDigits(n)
    ELSE LET d == NatStr(n)
             m == RStrip(d, {"0"})
         IN  << Head(m) >>
             \o (IF Len(m) > 1 THEN << "." >> \o Tail(m) ELSE <<>>)
             \o << "e", "-", "0", DigitChar(8 - Len(d)) >>

\* The characters of s with a backslash before each one of cs.
RECURSIVE Escape(_, _)
Escape(s, cs) ==
    IF s = <<>> THEN <<>>
    ELSE (IF Head(s) \in cs THEN << "\\", Head(s) >> ELSE << Head(s) >>)
         \o Escape(Tail(s), cs)

HasChar(s, c) == \E i \in 1..Len(s) : s[i] = c

\* repr of a str: in single quotes, or in double quotes when it holds a single
\* quote and no double quote.
StrRepr(s) ==
    IF HasChar(s, "'") /\ ~HasChar(s, "\"")
    THEN << "\"" >> \o Escape(s, {"\\"}) \o << "\"" >>
    ELSE << "'" >> \o Escape(s, {"'", "\\"}) \o << "'" >>

RECURSIVE Repr(_)
Repr(v) ==
    CASE v.k = "none" -> << "N", "o", "n", "e" >>
      [] v.k = "bool" ->
            IF v.b THEN << "T", "r", "u", "e" >> ELSE << "F", "a", "l", "s", "e" >>
      [] v.k = "int" -> NatStr(v.n \div One)
      [] v.k = "float" -> (IF v.b THEN << "-" >> ELSE <<>>) \o FloatStr(v.n)
      [] v.k = "nan" -> << "n", "a", "n" >>
      [] v.k = "str" -> StrRepr(v.s)
      [] v.k = "list" ->
            << "[" >>
            \o JoinStr([ i \in 1..Len(v.xs) |-> Repr(v.xs[i]) ], << ",", " " >>)
            \o << "]" >>
      [] v.k = "dict" ->
            << "{" >>
            \o JoinStr([ i \in 1..Len(v.xs) |->
                           StrRepr(v.xs[i].key) \o << ":", " " >> \o Repr(v.xs[i].val) ],
                       << ",", " " >>)
            \o << "}" >>
      [] v.k = "set" -> << "{" >> \o NatStr(v.n \div One) \o << "}" >>

\* str(v): a str is its own text, anything else its repr.
Str(v) == IF v.k = "str" THEN v.s ELSE Repr(v)

\* The items of a dict in the order of their keys (sort_keys=True).
RECURSIVE SortItems(_)
SortItems(items) ==
    IF items = <<>> THEN <<>>
    ELSE LET i == CHOOSE i \in 1..Len(items) :
                      \A j \in 1..Len(items) : ~StrLess(items[j].key, items[i].key)
             rest == [ j \in 1..(Len(items) - 1) |->
                         IF j < i THEN items[j] ELSE items[j + 1] ]
         IN  << items[i] >> \o SortItems(rest)

JsonStr(s) == << "\"" >> \o Escape(s, {"\"", "\\"}) \o << "\"" >>

\* json.dumps(v) raises TypeError when v is, or holds, a value of a kind
\* JSON has no text for.
RECURSIVE JsonDumpsRaises(_)
JsonDumpsRaises(v) ==
    CASE v.k = "set" -> TRUE
      [] v.k = "list" -> \E i \in 1..Len(v.xs) : JsonDumpsRaises(v.xs[i])
      [] v.k = "dict" -> \E i \in 1..Len(v.xs) : JsonDumpsRaises(v.xs[i].val)
      [] OTHER -> FALSE

\* json.dumps(v, sort_keys=True), where it does not raise.
RECURSIVE JsonDumps(_)
JsonDumps(v) ==
    CASE v.k = "none" -> << "n", "u", "l", "l" >>
      [] v.k = "bool" ->
            IF v.b THEN << "t", "r", "u", "e" >> ELSE << "f", "a", "l", "s", "e" >>
      [] v.k = "int" -> NatStr(v.n \div One)
      [] v.k = "float" -> (IF v.b THEN << "-" >> ELSE <<>>) \o FloatStr(v.n)
      [] v.k = "nan" -> << "N", "a", "N" >>
      [] v.k = "str" -> JsonStr(v.s)
      [] v.k = "list" ->
            << "[" >>
            \o JoinStr([ i \in 1..Len(v.xs) |-> JsonDumps(v.xs[i]) ], << ",", " " >>)
            \o << "]" >>
      [] v.k = "dict" ->
            LET items == SortItems(v.xs)
            IN  << "{" >>
                \o JoinStr([ i \in 1..Len(items) |->
                               JsonStr(items[i].key) \o << ":", " " >>
                               \o JsonDumps(items[i].val) ],
                           << ",", " " >>)
                \o << "}" >>

\* The whole number a run of digits spells.
RECURSIVE DigitsVal(_)
DigitsVal(s) ==
    IF s = <<>> THEN 0
    ELSE 10 * DigitsVal(SubSeq(s, 1, Len(s) - 1)) + DigitVal(s[Len(s)])

AllDigits(s) == \A i \in 1..Len(s) : IsDigit(s[i])

\* float(s): blanks around the text are ignored; the text is nan in any case
\* of letters, or digits with at most one point and at least one digit.
\* (The strings of the model hold no sign, exponent, underscore or infinity,
\* and at most seven digits after the point.)  ok is FALSE for ValueError.
\* A float() that takes no text.
ParseFloatNever(s) == [ ok |-> FALSE, val |-> 0 ]

ParseFloat(s) ==
    LET t == StripSpace(s)
        dots == { i \in 1..Len(t) : t[i] = "." }
    IN  IF StrLower(t) = << "n", "a", "n" >>
        THEN [ ok |-> TRUE, val |-> PyNaN ]
        ELSE IF t = <<>> \/ Cardinality(dots) > 1
        THEN [ ok |-> FALSE, val |-> PyNone ]
        ELSE LET p == IF dots = {} THEN Len(t) + 1 ELSE CHOOSE i \in dots : TRUE
                 whole == SubSeq(t, 1, p - 1)
                 frac == SubSeq(t, p + 1, Len(t))
                 pad == [ i \in 1..(7 - Len(frac)) |-> "0" ]
             IN  IF AllDigits(whole) /\ AllDigits(frac) /\ Len(whole) + Len(frac) > 0
                 THEN [ ok |-> TRUE,
                        val |-> PyFloat(DigitsVal(whole) * One + DigitsVal(frac \o pad)) ]
                 ELSE [ ok |-> FALSE, val |-> PyNone ]

\* sorted(xs, key=...) given the key of each element: a stable insertion sort.
RECURSIVE StableSort(_, _)
StableSort(xs, keys) ==
    IF xs = <<>> THEN <<>>
    ELSE LET n == Len(xs)
             front == StableSort(SubSeq(xs, 1, n - 1), SubSeq(keys, 1, n - 1))
             \* the keys of front, in front's order
             fkeys == StableSort(SubSeq(keys, 1, n - 1), SubSeq(keys, 1, n - 1))
             \* the last element goes after every element whose key is not greater
             pos == Cardinality({ i \in 1..(n - 1) : ~StrLess(keys[n], fkeys[i]) })
         IN  SubSeq(front, 1, pos) \o << xs[n] >> \o SubSeq(front, pos + 1, n - 1)

(***************************************************************************)
(* compare-results.py                                                      *)
(***************************************************************************)

\* The field names the program names.
K_id == << "_", "i", "d" >>
K_ID == << "_", "I", "D" >>
Kid == << "i", "d" >>
KID == << "I", "D" >>
KId == << "I", "d" >>
Kgrp_id == << "g", "r", "p", "_", "i", "d" >>
KGRP_ID == << "G", "R", "P", "_", "I", "D" >>
KCNT == << "C", "N", "T" >>
KCOUNT == << "C", "O", "U", "N", "T" >>

\* The test that skips an internal field: k.startswith('_') and k != '_id'.
IsSkipped(k) == StartsWith(k, << "_" >>) /\ k # K_id

\* The key a kept field is stored under: the quotes stripped, upper case, and
\* _ID, GRP_ID and CNT renamed.
CanonicalKey(k) ==
    LET key == StrUpper(StripChars(StripChars(k, {"\""}), {"'"}))
    IN  IF key = K_ID \/ key = KGRP_ID THEN KID
        ELSE IF key = KCNT THEN KCOUNT
        ELSE key

RECURSIVE NormalizeValue(_, _)
RECURSIVE NormalizeItems(_, _, _)

\* The loop of normalize_doc over doc.items(), result being the dict so far.
NormalizeItems(items, strict_types, result) ==
    IF items = <<>> THEN result
    ELSE LET k == Head(items).key
             v == Head(items).val
         IN  IF IsSkipped(k)
             THEN NormalizeItems(Tail(items), strict_types, result)
             ELSE NormalizeItems(Tail(items), strict_types,
                      DictSet(result, CanonicalKey(k), NormalizeValue(v, strict_types)))

NormalizeValue(v, strict_types) ==
    CASE v.k = "none" -> v
      [] v.k = "bool" -> v
      [] v.k \in {"int", "float"} ->
            IF v = PyNegZero THEN v ELSE PyFloat(Round6(v.n))
      [] v.k = "nan" -> v
      [] v.k = "str" ->
            IF strict_types
            THEN PyStr(StripSpace(v.s))
            ELSE LET f == ParseFloat(v.s)
                 IN  IF ~f.ok THEN PyStr(StripSpace(v.s))
                     ELSE IF f.val.k = "nan" THEN f.val
                     ELSE PyFloat(Round6(f.val.n))
      [] v.k = "dict" -> PyDict(NormalizeItems(v.xs, strict_types, <<>>))
      [] v.k = "list" ->
            PyList([ i \in 1..Len(v.xs) |-> NormalizeValue(v.xs[i], strict_types) ])
      [] OTHER -> v

NormalizeDoc(doc, strict_types) ==
    IF ~IsDict(doc) THEN NormalizeValue(doc, strict_types)
    ELSE PyDict(NormalizeItems(doc.xs, strict_types, <<>>))

NormalizeBool(val) ==
    CASE val.k = "bool" -> val
      [] val.k = "str" ->
            IF StrLower(val.s) = << "t", "r", "u", "e" >> THEN PyBool(TRUE)
            ELSE IF StrLower(val.s) = << "f", "a", "l", "s", "e" >> THEN PyBool(FALSE)
            ELSE val
      [] val.k \in {"int", "float"} ->
            IF val.n = One THEN PyBool(TRUE)
            ELSE IF val.n = 0 THEN PyBool(FALSE)
            ELSE val
      [] OTHER -> val

\* The text an array element is compared by.
ElementText(x) == IF IsDict(x) THEN JsonDumps(x) ELSE Str(x)

ElementSet(v) == { ElementText(v.xs[i]) : i \in 1..Len(v.xs) }

\* Building the set of texts raises: an element is a dict json.dumps raises on.
ElementSetRaises(v) ==
    \E i \in 1..Len(v.xs) : IsDict(v.xs[i]) /\ JsonDumpsRaises(v.xs[i])

\* The strict gate: the type names differ and the two are not both numbers.
TypeGateRejects(mongo_val, oracle_val) ==
    LET mongo_is_num == IsIntOrFloat(mongo_val) /\ ~IsBool(mongo_val)
        oracle_is_num == IsIntOrFloat(oracle_val) /\ ~IsBool(oracle_val)
    IN  /\ ~(mongo_is_num /\ oracle_is_num)
        /\ TypeName(mongo_val) # TypeName(oracle_val)

\* A boolean step that turns nothing into a bool.
BoolStepBoolsOnly(mongo_val, oracle_val, strict_types) ==
    IsBool(mongo_val) /\ IsBool(oracle_val) /\ mongo_val.b = oracle_val.b

\* The boolean step: two bools that are equal, or in loose mode two values that
\* normalize_bool turns into equal bools.
BoolStepAccepts(mongo_val, oracle_val, strict_types) ==
    IF IsBool(mongo_val) /\ IsBool(oracle_val)
    THEN mongo_val.b = oracle_val.b
    ELSE /\ ~strict_types
         /\ LET mongo_bool == NormalizeBool(mongo_val)
                oracle_bool == NormalizeBool(oracle_val)
            IN  /\ IsBool(mongo_bool)
                /\ IsBool(oracle_bool)
                /\ mongo_bool.b = oracle_bool.b

\* The numeric step: two numbers, neither a bool, within the tolerance.
NumericStepAccepts(mongo_val, oracle_val) ==
    /\ IsIntOrFloat(mongo_val) /\ IsIntOrFloat(oracle_val)
    /\ ~IsBool(mongo_val) /\ ~IsBool(oracle_val)
    /\ AbsDiffBelowTolerance(mongo_val, oracle_val)

\* The array step, with the length ignored.
ArrayStepIgnoringLength(mongo_val, oracle_val) ==
    ElementSet(mongo_val) = ElementSet(oracle_val)

\* An array step that compares the elements pair by pair and lets two numbers
\* within the tolerance pass.
ArrayStepWithTolerance(mongo_val, oracle_val) ==
    /\ Len(mongo_val.xs) = Len(oracle_val.xs)
    /\ \A i \in 1..Len(mongo_val.xs) :
          \/ NumericStepAccepts(mongo_val.xs[i], oracle_val.xs[i])
          \/ Str(mongo_val.xs[i]) = Str(oracle_val.xs[i])

\* An array step that takes two arrays it cannot encode as equal.
ArrayStepEncodingErrorEqual(mongo_val, oracle_val) ==
    IF Len(mongo_val.xs) # Len(oracle_val.xs) THEN FALSE
    ELSE IF ElementSetRaises(mongo_val) \/ ElementSetRaises(oracle_val) THEN TRUE
    ELSE ElementSet(mongo_val) = ElementSet(oracle_val)

\* The array step: two lists of one length whose elements give one set of texts.
\* An exception raised while the sets are built is caught and passed over, and
\* the function goes on to its last line, which returns False.
ArrayStepAccepts(mongo_val, oracle_val) ==
    IF Len(mongo_val.xs) # Len(oracle_val.xs) THEN FALSE
    ELSE IF ElementSetRaises(mongo_val) \/ ElementSetRaises(oracle_val) THEN FALSE
    ELSE ElementSet(mongo_val) = ElementSet(oracle_val)

NativeEqual(mongo_val, oracle_val) == PyEq(mongo_val, oracle_val)

ValuesEqual(mongo_val, oracle_val, strict_types) ==
    IF NativeEqual(mongo_val, oracle_val) THEN TRUE
    ELSE IF strict_types /\ TypeGateRejects(mongo_val, oracle_val) THEN FALSE
    ELSE IF BoolStepAccepts(mongo_val, oracle_val, strict_types) THEN TRUE
    ELSE IF NumericStepAccepts(mongo_val, oracle_val) THEN TRUE
    ELSE IF IsList(mongo_val) /\ IsList(oracle_val)
    THEN ArrayStepAccepts(mongo_val, oracle_val)
    ELSE FALSE

\* bool(v): the truth value of v.
Truthy(v) ==
    CASE v.k = "none" -> FALSE
      [] v.k = "bool" -> v.b
      [] v.k \in {"int", "float"} -> v.n # 0
      [] v.k = "nan" -> TRUE
      [] v.k = "str" -> v.s # <<>>
      [] v.k = "set" -> TRUE
      [] OTHER -> v.xs # <<>>

\* len(v) raises TypeError unless v is a list, a dict or a str.
HasLen(v) == v.k \in {"list", "dict", "str", "set"}
PyLen(v) == IF v.k = "str" THEN Len(v.s) ELSE IF v.k = "set" THEN 1 ELSE Len(v.xs)

\* What iterating v yields: the elements of a list, the keys of a dict, the
\* characters of a str.
PyIter(v) ==
    CASE v.k = "list" -> v.xs
      [] v.k = "dict" -> [ i \in 1..Len(v.xs) |-> PyStr(v.xs[i].key) ]
      [] v.k = "str" -> [ i \in 1..Len(v.s) |-> PyStr(<< v.s[i] >>) ]
      [] v.k = "set" -> << PyInt(v.n) >>

\* The message of a result, f-string by f-string: the prefix and the values
\* put after it.
Message(prefix, count, mongo, oracle, row, diag) ==
    [ prefix |-> prefix, count |-> count, mongo |-> mongo, oracle |-> oracle,
      row |-> row, diag |-> diag ]

NoDiag == [ field |-> <<>>, mongo_val |-> <<>>, mongo_type |-> "",
            oracle_val |-> <<>>, oracle_type |-> "" ]

\* A message of a match that names the loose mode whatever the mode is.
MatchMessageLoose(strict_types, count) == Message("LOOSE_MATCH", count, 0, 0, 0, NoDiag)

MatchMessage(strict_types, count) ==
    Message(IF strict_types THEN "STRICT_MATCH" ELSE "LOOSE_MATCH", count, 0, 0, 0, NoDiag)

CountMismatchMessage(mongo_count, oracle_count) ==
    Message("COUNT_MISMATCH", 0, mongo_count, oracle_count, 0, NoDiag)

DocMismatchMessage(row, diag) == Message("DOC_MISMATCH", 0, 0, 0, row, diag)

NoMessage == Message("", 0, 0, 0, 0, NoDiag)

\* What a call ends with: it returns (success, message) or raises.
Returns(success, message) == [ raised |-> FALSE, success |-> success, message |-> message ]
Raises == [ raised |-> TRUE, success |-> FALSE, message |-> NoMessage ]

\* The text of docs_match about key: the field, both values and both types.
Diagnostic(key, mongo_val, oracle_val) ==
    [ field |-> key,
      mongo_val |-> Str(mongo_val), mongo_type |-> TypeName(mongo_val),
      oracle_val |-> Str(oracle_val), oracle_type |-> TypeName(oracle_val) ]

\* The value of a set of one value.  A local of the program is bound as the
\* one element of a set, so that it is worked out once.
The(S) == CHOOSE x \in S : TRUE

\* A docs_match that walks the keys of the left document only.
DocsComparedLeftKeys(mongo_doc, oracle_doc, strict_types) ==
    The({ [ raised |-> ~IsDict(mongo_norm) \/ ~IsDict(oracle_norm),
            failing |-> IF ~IsDict(mongo_norm) \/ ~IsDict(oracle_norm) THEN {}
                        ELSE { key \in DictKeys(mongo_norm) :
                                 ~ValuesEqual(DictGet(mongo_norm, key, PyNone),
                                              DictGet(oracle_norm, key, PyNone),
                                              strict_types) },
            mongo_norm |-> mongo_norm, oracle_norm |-> oracle_norm ] :
            mongo_norm \in { NormalizeDoc(mongo_doc, strict_types) },
            oracle_norm \in { NormalizeDoc(oracle_doc, strict_types) } })

\* docs_match up to its loop: both documents normalized, and the keys of
\* either whose values are not equal.  Taking the keys of a normalized
\* document that is no dict raises AttributeError.
DocsCompared(mongo_doc, oracle_doc, strict_types) ==
    The({ IF ~IsDict(mongo_norm) \/ ~IsDict(oracle_norm)
          THEN [ raised |-> TRUE, failing |-> {}, mongo_norm |-> mongo_norm,
                 oracle_norm |-> oracle_norm ]
          ELSE [ raised |-> FALSE,
                 failing |-> { key \in DictKeys(mongo_norm) \cup DictKeys(oracle_norm) :
                                 ~ValuesEqual(DictGet(mongo_norm, key, PyNone),
                                              DictGet(oracle_norm, key, PyNone),
                                              strict_types) },
                 mongo_norm |-> mongo_norm, oracle_norm |-> oracle_norm ] :
            mongo_norm \in { NormalizeDoc(mongo_doc, strict_types) },
            oracle_norm \in { NormalizeDoc(oracle_doc, strict_types) } })

\* The results docs_match can give.  It walks a set of str, whose order
\* follows the hashes of the process, so that when several keys fail any of
\* them may be the first one met.
DocsMatch(mongo_doc, oracle_doc, strict_types) ==
    UNION { IF c.raised THEN { Raises }
            ELSE IF c.failing = {} THEN { Returns(TRUE, NoDiag) }
            ELSE { Returns(FALSE, Diagnostic(key, DictGet(c.mongo_norm, key, PyNone),
                                             DictGet(c.oracle_norm, key, PyNone))) :
                     key \in c.failing } :
              c \in { DocsCompared(mongo_doc, oracle_doc, strict_types) } }

\* A sort key that is the same for every document.
GetSortKeyConstant(doc) == [ ok |-> TRUE, key |-> <<>> ]

\* The name list of get_sort_key, in its order.
IdKeys == << K_id, Kid, KID, KId, Kgrp_id, KGRP_ID >>

\* get_sort_key(doc): ok is FALSE when it raises.  `key in doc` raises
\* TypeError on a value that is no container; a str or list that is not empty
\* has no values() (and cannot be indexed by a name).
GetSortKey(doc) ==
    IF IsDict(doc)
    THEN LET found == { i \in 1..Len(IdKeys) : DictHas(doc, IdKeys[i]) }
         IN  IF found # {}
             THEN LET i == CHOOSE i \in found : \A j \in found : i <= j
                  IN  [ ok |-> TRUE, key |-> Str(DictAt(doc, IdKeys[i])) ]
             ELSE IF doc.xs # <<>>
             THEN [ ok |-> TRUE, key |-> Str(doc.xs[1].val) ]
             ELSE [ ok |-> TRUE, key |-> <<>> ]
    ELSE IF doc.k \in {"list", "str"} /\ ~Truthy(doc)
    THEN [ ok |-> TRUE, key |-> <<>> ]
    ELSE [ ok |-> FALSE, key |-> <<>> ]

\* The key of sorted under sort_by: str(x.get(sort_by, '')).  Only a dict
\* has get, and a list or dict cannot be looked up in one.
SortByKey(x, sort_by) ==
    IF ~IsDict(x) \/ sort_by.k \in {"list", "dict"}
    THEN [ ok |-> FALSE, key |-> <<>> ]
    ELSE IF IsStr(sort_by)
    THEN [ ok |-> TRUE, key |-> Str(DictGet(x, sort_by.s, PyStr(<<>>))) ]
    ELSE [ ok |-> TRUE, key |-> <<>> ]

\* sorted(docs, key=...) for one side: ok is FALSE when a key raises.
Sorted(docs, sort_by) ==
    The({ IF \E i \in 1..Len(xs) : ~ks[i].ok
          THEN [ ok |-> FALSE, docs |-> xs ]
          ELSE The({ [ ok |-> TRUE, docs |-> StableSort(xs, keys) ] :
                       keys \in { [ i \in 1..Len(xs) |-> ks[i].key ] } }) :
            xs \in { PyIter(docs) },
            ks \in { [ i \in 1..PyLen(docs) |->
                        IF Truthy(sort_by) THEN SortByKey(PyIter(docs)[i], sort_by)
                        ELSE GetSortKey(PyIter(docs)[i]) ] } })

\* The two sides as the loop of compare_results pairs them.  The left side
\* is sorted and rebound first: an error in sorting the right side leaves
\* the left one sorted.
Paired(mongo_docs, oracle_docs, sort_by) ==
    The({ IF ~m.ok THEN [ mongo |-> PyIter(mongo_docs), oracle |-> PyIter(oracle_docs) ]
          ELSE IF ~o.ok THEN [ mongo |-> m.docs, oracle |-> PyIter(oracle_docs) ]
          ELSE [ mongo |-> m.docs, oracle |-> o.docs ] :
            m \in { Sorted(mongo_docs, sort_by) },
            o \in { Sorted(oracle_docs, sort_by) } })

\* A sort in place, as docs.sort(key=...) would do it: the caller's list is
\* left in the sorted order.
AfterSortInPlace(docs, sort_by) ==
    IF IsList(docs) /\ Sorted(docs, sort_by).ok
    THEN PyList(Sorted(docs, sort_by).docs)
    ELSE docs

\* The caller's collection once compare_results has run sorted(docs, key=...)
\* on it: sorted builds a new list, and the name it is bound to is a local of
\* compare_results, so the collection is as it was.
AfterSorted(docs, sort_by) == docs

\* The count check: mongo_count != oracle_count.
\* A count check that sees only a left side that is the longer one.
CountsDifferLeftLonger(mongo_count, oracle_count) == mongo_count > oracle_count

CountsDiffer(mongo_count, oracle_count) == mongo_count # oracle_count

\* A loop that goes on after a pair that fails and gives the last failure.
CompareLoopLastFailure(p, n, strict_types) ==
    UNION { IF stops = {} THEN { Returns(TRUE, MatchMessage(strict_types, n)) }
            ELSE UNION { { IF r.raised THEN Raises
                           ELSE Returns(FALSE, DocMismatchMessage(i - 1, r.message)) :
                             r \in DocsMatch(p.mongo[i], p.oracle[i], strict_types) } :
                         i \in { CHOOSE i \in stops : \A j \in stops : i >= j } } :
              stops \in { { i \in 1..n :
                              DocsMatch(p.mongo[i], p.oracle[i], strict_types)
                                  # { Returns(TRUE, NoDiag) } } } }

\* The loop of compare_results over the n pairs of p: it stops at the first
\* pair docs_match does not pass, which gives a DOC_MISMATCH with its row or
\* raises, and gives the match when no pair stops it.
CompareLoop(p, n, strict_types) ==
    UNION { IF stops = {} THEN { Returns(TRUE, MatchMessage(strict_types, n)) }
            ELSE UNION { { IF r.raised THEN Raises
                           ELSE Returns(FALSE, DocMismatchMessage(i - 1, r.message)) :
                             r \in DocsMatch(p.mongo[i], p.oracle[i], strict_types) } :
                         i \in { CHOOSE i \in stops : \A j \in stops : i <= j } } :
              stops \in { { i \in 1..n :
                              DocsMatch(p.mongo[i], p.oracle[i], strict_types)
                                  # { Returns(TRUE, NoDiag) } } } }

\* The results compare_results can give.
CompareResults(mongo_docs, oracle_docs, sort_by, strict_types) ==
    IF ~HasLen(mongo_docs) \/ ~HasLen(oracle_docs) THEN { Raises }
    ELSE IF CountsDiffer(PyLen(mongo_docs), PyLen(oracle_docs))
    THEN { Returns(FALSE, CountMismatchMessage(PyLen(mongo_docs), PyLen(oracle_docs))) }
    ELSE IF PyLen(mongo_docs) = 0
    THEN { Returns(TRUE, MatchMessage(strict_types, 0)) }
    ELSE UNION { CompareLoop(p, PyLen(mongo_docs), strict_types) :
                   p \in { Paired(mongo_docs, oracle_docs, sort_by) } }

(***************************************************************************)
(* The program: main and compare_with_fallback, step by step               *)
(***************************************************************************)

VARIABLES
    use_stdin,      \* args.stdin, or no file was named
    try_both,       \* args.try_both
    arg_sort_by,    \* args.sort_by
    stdin_text,     \* what standard input holds
    mongo_text,     \* what the file args.mongo_file holds
    oracle_text,    \* what the file args.oracle_file holds
    pc,             \* "load", "compare", "loose", "done" (main), "call", "called"
    mongo_docs,     \* the locals of main, once loaded
    oracle_docs,
    sort_by,
    strict_result,  \* what compare_results gave in strict mode, once run
    loose_result,   \* what compare_results gave in loose mode, once run
    fallback,       \* what compare_with_fallback returned, once it has
    stdout,         \* the line printed
    exit_status,    \* the exit status, -1 while running
    call,           \* a direct call of a function: its name and arguments
    ret             \* what the call returned, and returned when made again

vars == << use_stdin, try_both, arg_sort_by, stdin_text, mongo_text, oracle_text,
           pc, mongo_docs, oracle_docs, sort_by, strict_result, loose_result,
           fallback, stdout, exit_status, call, ret >>

inputs == << use_stdin, try_both, arg_sort_by, stdin_text, mongo_text, oracle_text >>

\* A text to parse: a file that cannot be opened ("missing"), a text that is
\* blank ("empty"), a text json rejects ("malformed") or the text of val.
Text(kind, val) == [ kind |-> kind, val |-> val ]
Missing == Text("missing", PyNone)
Empty == Text("empty", PyNone)
Malformed == Text("malformed", PyNone)
Json(val) == Text("json", val)

NotRun == [ raised |-> FALSE, success |-> FALSE, message |-> Message("NOT_RUN", 0, 0, 0, 0, NoDiag) ]
NoTriple == [ success |-> FALSE, message |-> NoMessage, match_type |-> "" ]
Triple(success, message, match_type) ==
    [ success |-> success, message |-> message, match_type |-> match_type ]

NoCall == [ fn |-> "", a |-> PyNone, b |-> PyNone, strict_types |-> TRUE ]

Kmongo == << "m", "o", "n", "g", "o" >>
Koracle == << "o", "r", "a", "c", "l", "e" >>
Ksort_by == << "s", "o", "r", "t", "_", "b", "y" >>

\* mongo_docs made a list: a value that is no list becomes a list of it, or
\* the empty list when it is falsy.
EnsureList(docs) ==
    IF IsList(docs) THEN docs
    ELSE IF Truthy(docs) THEN PyList(<< docs >>) ELSE PyList(<<>>)

\* oracle_docs from the text of the oracle file: blank, null and None give the
\* empty list, and a value that is no list becomes a list of it.
OracleDocsOf(text) ==
    IF text.kind = "empty" \/ IsNone(text.val) THEN PyList(<<>>)
    ELSE IF ~IsList(text.val) THEN PyList(<< text.val >>)
    ELSE text.val

\* mongo_docs from the text of the mongo file, before it is made a list.
MongoDocsOf(text) == IF text.kind = "empty" THEN PyList(<<>>) ELSE text.val

\* The end of main: the line printed and the exit status.
Exit(line, status) ==
    /\ pc' = "done"
    /\ stdout' = line
    /\ exit_status' = status

ParseErrorLine == Message("PARSE_ERROR", 0, 0, 0, 0, NoDiag)
ErrorLine == Message("ERROR", 0, 0, 0, 0, NoDiag)

\* An end of main whose exit status is 0 whatever the result.
ExitWithZero(success, message) == Exit(message, 0)

\* print(message); sys.exit(0 if success else 1)
ExitWith(success, message) == Exit(message, IF success THEN 0 ELSE 1)

\* main, reading standard input: json.load raises JSONDecodeError on a text
\* that is no JSON, and data.get raises AttributeError on data that is no dict.
LoadStdin ==
    /\ pc = "load"
    /\ use_stdin
    /\ IF stdin_text.kind # "json"
       THEN Exit(ParseErrorLine, 2) /\ UNCHANGED << mongo_docs, oracle_docs, sort_by >>
       ELSE IF ~IsDict(stdin_text.val)
       THEN Exit(ErrorLine, 2) /\ UNCHANGED << mongo_docs, oracle_docs, sort_by >>
       ELSE LET data == stdin_text.val
                given == DictGet(data, Ksort_by, PyNone)
            IN  /\ mongo_docs' = EnsureList(DictGet(data, Kmongo, PyList(<<>>)))
                /\ oracle_docs' = DictGet(data, Koracle, PyList(<<>>))
                /\ sort_by' = IF Truthy(given) THEN given ELSE arg_sort_by
                /\ pc' = "compare"
                /\ UNCHANGED << stdout, exit_status >>
    /\ UNCHANGED << inputs, strict_result, loose_result, fallback, call, ret >>

\* main, reading the two files, the mongo file first: open raises on a file
\* it cannot open, json.loads raises JSONDecodeError on a text that is no JSON.
LoadFiles ==
    /\ pc = "load"
    /\ ~use_stdin
    /\ IF mongo_text.kind = "missing"
       THEN Exit(ErrorLine, 2) /\ UNCHANGED << mongo_docs, oracle_docs, sort_by >>
       ELSE IF mongo_text.kind = "malformed"
       THEN Exit(ParseErrorLine, 2) /\ UNCHANGED << mongo_docs, oracle_docs, sort_by >>
       ELSE IF oracle_text.kind = "missing"
       THEN Exit(ErrorLine, 2) /\ UNCHANGED << mongo_docs, oracle_docs, sort_by >>
       ELSE IF oracle_text.kind = "malformed"
       THEN Exit(ParseErrorLine, 2) /\ UNCHANGED << mongo_docs, oracle_docs, sort_by >>
       ELSE /\ mongo_docs' = EnsureList(MongoDocsOf(mongo_text))
            /\ oracle_docs' = OracleDocsOf(oracle_text)
            /\ sort_by' = arg_sort_by
            /\ pc' = "compare"
            /\ UNCHANGED << stdout, exit_status >>
    /\ UNCHANGED << inputs, strict_result, loose_result, fallback, call, ret >>

\* What compare_with_fallback does with the strict result: it returns it when
\* it is a success, and goes on to the loose run otherwise.
StrictOutcome(r) ==
    IF r.success THEN Triple(TRUE, r.message, "strict") ELSE NoTriple

\* A loose outcome that calls every loose result a loose match.
LooseOutcomeAlwaysLoose(r) == Triple(TRUE, r.message, "loose")

\* What compare_with_fallback returns after the loose run.
LooseOutcome(r) ==
    IF r.success THEN Triple(TRUE, r.message, "loose")
    ELSE Triple(FALSE, r.message, "none")

\* main without --try-both: one compare_results, in strict mode.
CompareOnce ==
    /\ pc = "compare"
    /\ ~try_both
    /\ \E r \in CompareResults(mongo_docs, oracle_docs, sort_by, TRUE) :
          /\ strict_result' = r
          /\ IF r.raised THEN Exit(ErrorLine, 2) ELSE ExitWith(r.success, r.message)
    /\ mongo_docs' = AfterSorted(mongo_docs, sort_by)
    /\ oracle_docs' = AfterSorted(oracle_docs, sort_by)
    /\ UNCHANGED << inputs, sort_by, loose_result, fallback, call, ret >>

\* compare_with_fallback, its strict run.
TryStrict ==
    /\ pc = "compare"
    /\ try_both
    /\ \E r \in CompareResults(mongo_docs, oracle_docs, sort_by, TRUE) :
          /\ strict_result' = r
          /\ IF r.raised
             THEN Exit(ErrorLine, 2) /\ UNCHANGED fallback
             ELSE IF r.success
             THEN /\ fallback' = StrictOutcome(r)
                  /\ ExitWith(fallback'.success, fallback'.message)
             ELSE /\ pc' = "loose"
                  /\ UNCHANGED << fallback, stdout, exit_status >>
    /\ mongo_docs' = AfterSorted(mongo_docs, sort_by)
    /\ oracle_docs' = AfterSorted(oracle_docs, sort_by)
    /\ UNCHANGED << inputs, sort_by, loose_result, call, ret >>

\* compare_with_fallback, its loose run, and the end of main after it.
TryLoose ==
    /\ pc = "loose"
    /\ \E r \in CompareResults(mongo_docs, oracle_docs, sort_by, FALSE) :
          /\ loose_result' = r
          /\ IF r.raised
             THEN Exit(ErrorLine, 2) /\ UNCHANGED fallback
             ELSE /\ fallback' = LooseOutcome(r)
                  /\ ExitWith(fallback'.success, fallback'.message)
    /\ mongo_docs' = AfterSorted(mongo_docs, sort_by)
    /\ oracle_docs' = AfterSorted(oracle_docs, sort_by)
    /\ UNCHANGED << inputs, sort_by, strict_result, call, ret >>

\* A direct call of values_equal.
CallValuesEqual ==
    /\ pc = "call"
    /\ call.fn = "values_equal"
    /\ ret' = << PyBool(ValuesEqual(call.a, call.b, call.strict_types)) >>
    /\ pc' = "called"
    /\ UNCHANGED << inputs, mongo_docs, oracle_docs, sort_by, strict_result, loose_result,
                    fallback, stdout, exit_status, call >>

\* A direct call of normalize_value.
CallNormalizeValue ==
    /\ pc = "call"
    /\ call.fn = "normalize_value"
    /\ ret' = << NormalizeValue(call.a, call.strict_types) >>
    /\ pc' = "called"
    /\ UNCHANGED << inputs, mongo_docs, oracle_docs, sort_by, strict_result, loose_result,
                    fallback, stdout, exit_status, call >>

\* A direct call of normalize_doc.
CallNormalizeDoc ==
    /\ pc = "call"
    /\ call.fn = "normalize_doc"
    /\ ret' = << NormalizeDoc(call.a, call.strict_types) >>
    /\ pc' = "called"
    /\ UNCHANGED << inputs, mongo_docs, oracle_docs, sort_by, strict_result, loose_result,
                    fallback, stdout, exit_status, call >>

\* The same normalization, applied to what the first call returned.
CallAgain ==
    /\ pc = "called"
    /\ call.fn \in { "normalize_value", "normalize_doc" }
    /\ ret' = Append(ret, IF call.fn = "normalize_value"
                          THEN NormalizeValue(ret[1], call.strict_types)
                          ELSE NormalizeDoc(ret[1], call.strict_types))
    /\ pc' = "again"
    /\ UNCHANGED << inputs, mongo_docs, oracle_docs, sort_by, strict_result, loose_result,
                    fallback, stdout, exit_status, call >>

\* A direct call of docs_match.
CallDocsMatch ==
    /\ pc = "call"
    /\ call.fn = "docs_match"
    /\ \E r \in DocsMatch(call.a, call.b, call.strict_types) : ret' = << r >>
    /\ pc' = "called"
    /\ UNCHANGED << inputs, mongo_docs, oracle_docs, sort_by, strict_result, loose_result,
                    fallback, stdout, exit_status, call >>

NextCall ==
    CallValuesEqual \/ CallNormalizeValue \/ CallNormalizeDoc \/ CallAgain \/ CallDocsMatch

Next == LoadStdin \/ LoadFiles \/ CompareOnce \/ TryStrict \/ TryLoose

\* The state before the direct call c of a function.
StartCall(c) ==
    /\ call = c
    /\ pc = "call"
    /\ ret = <<>>
    /\ use_stdin = FALSE
    /\ try_both = FALSE
    /\ arg_sort_by = PyNone
    /\ stdin_text = Missing
    /\ mongo_text = Missing
    /\ oracle_text = Missing
    /\ mongo_docs = PyNone
    /\ oracle_docs = PyNone
    /\ sort_by = PyNone
    /\ strict_result = NotRun
    /\ loose_result = NotRun
    /\ fallback = NoTriple
    /\ stdout = NoMessage
    /\ exit_status = -1

Call(fn, a, b, strict_types) == [ fn |-> fn, a |-> a, b |-> b, strict_types |-> strict_types ]

\* The state main starts in, for a run on the given command line and texts.
Start(stdin, both, by, on_stdin, mongo, oracle) ==
    /\ use_stdin = stdin
    /\ try_both = both
    /\ arg_sort_by = by
    /\ stdin_text = on_stdin
    /\ mongo_text = mongo
    /\ oracle_text = oracle
    /\ pc = "load"
    /\ mongo_docs = PyNone
    /\ oracle_docs = PyNone
    /\ sort_by = PyNone
    /\ strict_result = NotRun
    /\ loose_result = NotRun
    /\ fallback = NoTriple
    /\ stdout = NoMessage
    /\ exit_status = -1
    /\ call = NoCall
    /\ ret = <<>>

(***************************************************************************)
(* The runs checked                                                        *)
(***************************************************************************)

\* The most documents a collection of the model holds.
MaxDocs == 2

Ka == << "a" >>
S1 == << "1" >>

\* {"a": 1}, {"a": "1"}, {"a": 2}, and 5, which is no document.
DocA1 == PyDict(<< Item(Ka, PyInt(One)) >>)
DocAS1 == PyDict(<< Item(Ka, PyStr(S1)) >>)
DocA2 == PyDict(<< Item(Ka, PyInt(2 * One)) >>)
Five == PyInt(5 * One)

Elements == { DocA1, DocAS1, DocA2, Five }

\* The lists of at most n of the values of S.
ListsOf(S, n) == { PyList(xs) : xs \in UNION { [ 1..m -> S ] : m \in 0..n } }

\* The JSON values a text holds: the collections, a bare document, the empty
\* document and null.
JsonValues == ListsOf(Elements, MaxDocs) \cup { DocA1, PyDict(<<>>), PyNone }

FileTexts == { Json(v) : v \in JsonValues } \cup { Missing, Empty, Malformed }

\* The object on standard input: each of its three fields is there or not.
StdinObject(mongo, oracle, by) ==
    PyDict((IF mongo.kind = "json" THEN << Item(Kmongo, mongo.val) >> ELSE <<>>)
           \o (IF oracle.kind = "json" THEN << Item(Koracle, oracle.val) >> ELSE <<>>)
           \o (IF by.kind = "json" THEN << Item(Ksort_by, by.val) >> ELSE <<>>))

Fields(S) == { Json(v) : v \in S } \cup { Missing }

\* The texts of standard input that are no JSON object.
StdinOthers == { Malformed, Empty, Json(PyList(<<>>)) }

SortBys == { PyNone, PyStr(Ka) }

\* A run of main from a command line, on standard input or on two files.
Init ==
    \E both \in BOOLEAN, by \in SortBys :
        \/ \E text \in StdinOthers : Start(TRUE, both, by, text, Missing, Missing)
        \/ \E m \in Fields(JsonValues), o \in Fields(JsonValues),
               given \in Fields({ PyStr(Ka) }) :
              Start(TRUE, both, by, Json(StdinObject(m, o, given)), Missing, Missing)
        \/ \E m \in FileTexts, o \in FileTexts : Start(FALSE, both, by, Malformed, m, o)

Spec == Init /\ [][Next]_vars

\* The longest array of the model.
MaxArrayLen == 3

S0 == << "0" >>
S10 == << "1", "0" >>
Strue == << "t", "r", "u", "e" >>
Sfalse == << "f", "a", "l", "s", "e" >>

\* The numbers: 0, 1, 2, 10 as int, and as float 0.0, 0.0001, 1.0, 1.0000004,
\* 1.0000005, 1.0000015, 1.00005, 1.0001, 1.0002, 2.0, 2.0001.
Numbers ==
    { PyInt(0), PyInt(One), PyInt(2 * One), PyInt(10 * One) }
    \cup { PyFloat(n) : n \in { 0, 1000, One, 10000004, 10000005, 10000015, 10000500,
                                10001000, 10002000, 2 * One, 20001000 } }

\* The strings: "", "0", "1", "10", " 10 ", "1.0", "1.00005", "true", "TRUE",
\* "True", "false", "False", "a", "nan", "None".
Strings ==
    { PyStr(s) : s \in { <<>>, S0, S1, S10, << " ", "1", "0", " " >>,
                         << "1", ".", "0" >>, << "1", ".", "0", "0", "0", "0", "5" >>,
                         Strue, StrUpper(Strue), << "T", "r", "u", "e" >>,
                         Sfalse, << "F", "a", "l", "s", "e" >>,
                         Ka, << "n", "a", "n" >>, << "N", "o", "n", "e" >> } }

Scalars == Numbers \cup Strings \cup { PyNone, PyBool(TRUE), PyBool(FALSE), PyNaN }

\* What the arrays hold: 1, 2, "1" and {"a": 1}.
ArrayElements == { PyInt(One), PyInt(2 * One), PyStr(S1), DocA1 }

Arrays == ListsOf(ArrayElements, MaxArrayLen)

\* The field names: the id and count names in several cases, names in
\* quotes, internal names.
FieldNames ==
    { K_id, K_ID, << "_", "I", "d" >>, Kid, KID, Kgrp_id, KGRP_ID,
      << "G", "r", "p", "_", "I", "d" >>, StrLower(KCNT), KCNT, << "C", "n", "t" >>,
      KCOUNT, Ka, << "_", "v" >>,
      << "\"", "a", "\"" >>, << "'", "a", "'" >>, << "\"", "_", "v", "\"" >>,
      << "\"", "_", "i", "d", "\"" >>, << "'", "\"", "a", "\"", "'" >>,
      << "\"", "c", "n", "t", "\"" >> }

\* The documents normalization is called on: one field of each name; two
\* names that meet in one key; a document in a document and in a list.
Documents ==
    { PyDict(<< Item(k, PyInt(One)) >>) : k \in FieldNames }
    \cup { PyDict(<< Item(K_id, PyStr(Ka)), Item(KGRP_ID, PyInt(5 * One)) >>),
           PyDict(<< Item(KGRP_ID, PyInt(5 * One)), Item(K_id, PyStr(Ka)) >>),
           PyDict(<< Item(StrLower(KCNT), PyInt(One)), Item(KCNT, PyInt(2 * One)) >>),
           PyDict(<< Item(Ka, PyDict(<< Item(<< "\"", "_", "v", "\"" >>, PyInt(One)) >>)) >>),
           PyList(<< PyDict(<< Item(<< "'", "_", "v", "'" >>, PyFloat(10000004)) >>) >>),
           PyDict(<<>>) }

\* The most fields of a document whose names meet in one key.
MaxFields == 3

\* Names that meet: _id, grp_id, GRP_ID and ID in the key ID, cnt and CNT in
\* the key COUNT.
MeetingNames == { K_id, Kgrp_id, KGRP_ID, KID, StrLower(KCNT), KCNT }

\* The documents of 2..MaxFields fields with distinct names that meet, the
\* i-th field holding the number i.
MeetingDocuments ==
    { PyDict([ i \in 1..Len(names) |-> Item(names[i], PyInt(i * One)) ]) :
        names \in { ns \in UNION { [ 1..n -> MeetingNames ] : n \in 2..MaxFields } :
                      \A i, j \in 1..Len(ns) : i # j => ns[i] # ns[j] } }

Kb == << "b" >>

\* What a field of the documents docs_match is called on holds, when it is
\* there: null, 1, "1" or true.
FieldValues == { PyNone, PyInt(One), PyStr(S1), PyBool(TRUE) }

\* The documents with the fields a and b, each there or not.
TwoFieldDocs ==
    { PyDict(a \o b) :
        a \in { <<>> } \cup { << Item(Ka, v) >> : v \in FieldValues },
        b \in { <<>> } \cup { << Item(Kb, v) >> : v \in FieldValues } }

\* The one-field documents docs_match is called on.
FieldDoc(v) == PyDict(<< Item(Ka, v) >>)

\* A direct call: values_equal on two scalars or two arrays, normalize_value
\* and normalize_doc on a value, docs_match on two one-field documents.
InitCall ==
    \E s \in BOOLEAN :
        \/ \E a \in Scalars, b \in Scalars : StartCall(Call("values_equal", a, b, s))
        \/ \E a \in Arrays, b \in Arrays : StartCall(Call("values_equal", a, b, s))
        \/ \E a \in Scalars \cup Arrays \cup Documents :
              StartCall(Call("normalize_value", a, PyNone, s))
        \/ \E a \in Documents \cup MeetingDocuments :
              StartCall(Call("normalize_doc", a, PyNone, s))
        \/ \E a \in Scalars, b \in Scalars :
              StartCall(Call("docs_match", FieldDoc(a), FieldDoc(b), s))
        \/ \E a \in TwoFieldDocs, b \in TwoFieldDocs :
              StartCall(Call("docs_match", a, b, s))

SpecCall == InitCall /\ [][NextCall]_vars

(***************************************************************************)
(* The escalation of compare_with_fallback                                 *)
(***************************************************************************)

StrictRuns == CompareResults(mongo_docs, oracle_docs, sort_by, TRUE)
LooseRuns == CompareResults(mongo_docs, oracle_docs, sort_by, FALSE)

\* C1: when compare_with_fallback has returned, it has returned (True, the
\* strict message, 'strict') exactly when the strict compare_results succeeds,
\* else (True, the loose message, 'loose') exactly when the loose one succeeds,
\* else (False, the loose message, 'none'): the message of a failure is the
\* loose run's, and success is true exactly when the match type is not 'none'.
C1_EscalationOrder ==
    (pc = "done" /\ fallback # NoTriple) =>
        /\ fallback.match_type \in { "strict", "loose", "none" }
        /\ fallback.success <=> fallback.match_type # "none"
        /\ fallback.match_type = "strict"
             <=> \E r \in StrictRuns : ~r.raised /\ r.success
        /\ fallback.match_type = "strict"
             => Returns(TRUE, fallback.message) \in StrictRuns
        /\ fallback.match_type = "loose"
             <=> /\ \A r \in StrictRuns : ~r.raised /\ ~r.success
                 /\ \E r \in LooseRuns : ~r.raised /\ r.success
        /\ fallback.match_type = "loose"
             => Returns(TRUE, fallback.message) \in LooseRuns
        /\ fallback.match_type = "none"
             => /\ \A r \in StrictRuns : ~r.raised /\ ~r.success
                /\ Returns(FALSE, fallback.message) \in LooseRuns
                /\ fallback.message = loose_result.message
        /\ stdout = fallback.message

\* A failure of both runs whose strict message is not the loose one: the
\* strict message is the one thrown away.
C1_Witness ==
    /\ pc = "done"
    /\ fallback.match_type = "none"
    /\ strict_result.message # loose_result.message
    /\ fallback.message = loose_result.message

\* A loose match after a strict failure.
C1_WitnessLoose ==
    /\ pc = "done"
    /\ fallback = Triple(TRUE, MatchMessage(FALSE, 1), "loose")
    /\ strict_result.message.prefix = "DOC_MISMATCH"

(***************************************************************************)
(* The exit status and the line of main                                    *)
(***************************************************************************)

Matches == { "STRICT_MATCH", "LOOSE_MATCH" }
Mismatches == { "COUNT_MISMATCH", "DOC_MISMATCH" }
Errors == { "PARSE_ERROR", "ERROR" }

\* The exit status agrees with the line: 0 with a match, 1 with a mismatch,
\* 2 with an error.
StatusAgreesWithLine ==
    /\ exit_status \in { 0, 1, 2 }
    /\ exit_status = 0 <=> stdout.prefix \in Matches
    /\ exit_status = 1 <=> stdout.prefix \in Mismatches
    /\ exit_status = 2 <=> stdout.prefix \in Errors

\* An input of the run is a text with characters that is no JSON.
MalformedGiven ==
    IF use_stdin THEN stdin_text.kind = "malformed"
    ELSE mongo_text.kind = "malformed" \/ oracle_text.kind = "malformed"

\* An input of the run is no JSON text: malformed, or without a character.
NotJsonGiven ==
    IF use_stdin THEN stdin_text.kind \in { "malformed", "empty" }
    ELSE \/ mongo_text.kind \in { "malformed", "empty" }
         \/ oracle_text.kind \in { "malformed", "empty" }

\* The JSON parser was given a malformed text: standard input, the mongo file,
\* or the oracle file after a mongo file that was opened and read.
MalformedParsed ==
    IF use_stdin THEN stdin_text.kind = "malformed"
    ELSE \/ mongo_text.kind = "malformed"
         \/ mongo_text.kind \in { "json", "empty" } /\ oracle_text.kind = "malformed"

LengthsDiffer ==
    /\ HasLen(mongo_docs) /\ HasLen(oracle_docs)
    /\ PyLen(mongo_docs) # PyLen(oracle_docs)

CountMismatch ==
    Returns(FALSE, CountMismatchMessage(PyLen(mongo_docs), PyLen(oracle_docs)))

\* C3: two collections of different lengths give, in strict mode and in loose
\* mode, with or without a sort key and whatever they hold, a failure whose
\* message is COUNT_MISMATCH with the two lengths.
C3_CountMismatch ==
    LengthsDiffer =>
        /\ strict_result \in { NotRun, CountMismatch }
        /\ loose_result \in { NotRun, CountMismatch }
        /\ pc = "done" => /\ strict_result = CountMismatch
                          /\ try_both => loose_result = CountMismatch
                          /\ stdout = CountMismatch.message
                          /\ exit_status = 1

\* One document against none, in both modes, with a sort key.
C3_Witness ==
    /\ pc = "done"
    /\ mongo_docs = PyList(<< DocA1 >>)
    /\ oracle_docs = PyList(<<>>)
    /\ sort_by = PyStr(Ka)
    /\ strict_result = Returns(FALSE, CountMismatchMessage(1, 0))
    /\ loose_result = Returns(FALSE, CountMismatchMessage(1, 0))

\* A shorter left side that holds a value that is no document.
C3_WitnessShorterLeft ==
    /\ pc = "done"
    /\ mongo_docs = PyList(<< Five >>)
    /\ PyLen(oracle_docs) = 2
    /\ strict_result = Returns(FALSE, CountMismatchMessage(1, 2))

(***************************************************************************)
(* values_equal: the kinds, the tolerance, the arrays                      *)
(***************************************************************************)

\* values_equal was called and has returned.
Returned(fn) == call.fn = fn /\ pc = "called"

\* The kind of a value: Integer and Float are one kind, Number.
KindOf(v) == IF v.k \in { "int", "float", "nan" } THEN "number" ELSE v.k

\* C4: in strict mode values_equal gives false for two values of different
\* kinds, Integer and Float being one kind: a Boolean never equals a Number
\* or a String.
C4_StrictKinds ==
    (Returned("values_equal") /\ call.strict_types /\ KindOf(call.a) # KindOf(call.b))
        => ret[1] = PyBool(FALSE)

\* s is the decimal text of the number n: str(n).
DecimalTextOf(s, n) ==
    /\ IsStr(s)
    /\ n.k \in { "int", "float" }
    /\ s.s = Str(n)

Matched == Returns(TRUE, NoDiag)

\* C5, as amended: for a string s that is the decimal text of a number n,
\* values_equal(s, n) is false in strict mode and in loose mode, for it parses
\* no string; docs_match, which normalizes first, fails on {f: s} against
\* {f: n} in strict mode and passes in loose mode, and values_equal is true of
\* the two values as loose normalization leaves them.
C5_DecimalText ==
    /\ (Returned("values_equal") /\ DecimalTextOf(call.a, call.b))
          => ret[1] = PyBool(FALSE)
    /\ (/\ Returned("docs_match")
        /\ Len(call.a.xs) = 1 /\ Len(call.b.xs) = 1
        /\ call.a.xs[1].key = call.b.xs[1].key
        /\ DecimalTextOf(call.a.xs[1].val, call.b.xs[1].val))
          => /\ (ret[1] = Matched) <=> ~call.strict_types
             /\ ValuesEqual(NormalizeValue(call.a.xs[1].val, FALSE),
                            NormalizeValue(call.b.xs[1].val, FALSE), FALSE)
             /\ ~ValuesEqual(NormalizeValue(call.a.xs[1].val, TRUE),
                             NormalizeValue(call.b.xs[1].val, TRUE), TRUE)

\* {"a": "10"} against {"a": 10} has passed docs_match in loose mode.
C5_Witness ==
    /\ Returned("docs_match")
    /\ ~call.strict_types
    /\ call.a = FieldDoc(PyStr(S10))
    /\ call.b = FieldDoc(PyInt(10 * One))
    /\ ret[1] = Matched

\* C5, as stated: values_equal(s, n) is false in strict mode and true in
\* loose mode.
C5_AsStated ==
    (Returned("values_equal") /\ DecimalTextOf(call.a, call.b))
        => ret[1] = PyBool(~call.strict_types)

\* The two values of the call are numbers, neither a bool nor a NaN.
BothNumbers == call.a.k \in { "int", "float" } /\ call.b.k \in { "int", "float" }

\* The absolute difference of the two numbers of the call, as decimals.
Difference ==
    IF NumOf(call.a) >= NumOf(call.b) THEN NumOf(call.a) - NumOf(call.b)
    ELSE NumOf(call.b) - NumOf(call.a)

CalledOn(x, y) ==
    \/ call.a = PyFloat(x) /\ call.b = PyFloat(y)
    \/ call.a = PyFloat(y) /\ call.b = PyFloat(x)

\* C7, as amended: in either mode two numbers whose decimals differ by less
\* than 0.0001 are equal and two that differ by more are not; at a difference
\* of exactly 0.0001 the doubles decide, so that 1.0001 and 1.0 are equal
\* while 2.0001 and 2.0, and 0.0001 and 0.0, are not.
C7_Tolerance ==
    (Returned("values_equal") /\ BothNumbers) =>
        /\ Difference < Tolerance => ret[1] = PyBool(TRUE)
        /\ Difference > Tolerance => ret[1] = PyBool(FALSE)
        /\ CalledOn(10001000, One) => ret[1] = PyBool(TRUE)
        /\ CalledOn(20001000, 2 * One) => ret[1] = PyBool(FALSE)
        /\ CalledOn(1000, 0) => ret[1] = PyBool(FALSE)

\* 1.0001 against 1.0, a difference of 0.0001, has been found equal.
C7_Witness ==
    /\ Returned("values_equal")
    /\ call.strict_types
    /\ call.a = PyFloat(10001000)
    /\ call.b = PyFloat(One)
    /\ ret[1] = PyBool(TRUE)

\* C7, as stated: two numbers are equal exactly when their difference is
\* less than 0.0001, and at exactly 0.0001 they are not.
C7_AsStated ==
    (Returned("values_equal") /\ BothNumbers) =>
        (ret[1] = PyBool(TRUE) <=> Difference < Tolerance)

\* C8: in either mode two arrays are equal exactly when they are natively
\* equal, or have one length and one set of element texts; arrays of two
\* lengths are never equal, and order and multiplicity do not count.
C8_Arrays ==
    (Returned("values_equal") /\ IsList(call.a) /\ IsList(call.b)) =>
        /\ ret[1] = PyBool(TRUE)
             <=> \/ PyEq(call.a, call.b)
                 \/ /\ Len(call.a.xs) = Len(call.b.xs)
                    /\ { ElementText(call.a.xs[i]) : i \in 1..Len(call.a.xs) }
                         = { ElementText(call.b.xs[i]) : i \in 1..Len(call.b.xs) }
        /\ Len(call.a.xs) # Len(call.b.xs) => ret[1] = PyBool(FALSE)

\* [1, 1, 2] against [1, 2, 2] has been found equal in strict mode.
C8_Witness ==
    /\ Returned("values_equal")
    /\ call.strict_types
    /\ call.a = PyList(<< PyInt(One), PyInt(One), PyInt(2 * One) >>)
    /\ call.b = PyList(<< PyInt(One), PyInt(2 * One), PyInt(2 * One) >>)
    /\ ret[1] = PyBool(TRUE)

(***************************************************************************)
(* Normalization: idempotence and the keys                                 *)
(***************************************************************************)

\* C9: a value that normalization returned is returned as it is when it is
\* normalized again in the same mode.
C9_Idempotent ==
    (call.fn \in { "normalize_value", "normalize_doc" } /\ pc = "again")
        => ret[2] = ret[1]

\* The names of call.a that upper-case to one of names.
RawNames(names) ==
    { call.a.xs[i].key : i \in { j \in 1..Len(call.a.xs) :
                                   StrUpper(call.a.xs[j].key) \in names } }

\* C10: normalize_doc returns under ID every field whose name upper-cases to
\* _ID or GRP_ID, and under COUNT every field whose name upper-cases to CNT.
C10_Aliases ==
    (Returned("normalize_doc") /\ IsDict(call.a)) =>
        /\ RawNames({ K_ID, KGRP_ID }) # {} => DictHas(ret[1], KID)
        /\ RawNames({ KCNT }) # {} => DictHas(ret[1], KCOUNT)

(***************************************************************************)
(* A boolean against its spelling, through main                            *)
(***************************************************************************)

Kflag == << "f", "l", "a", "g" >>
K_flag == << "_", "f", "l", "a", "g" >>

\* The names of the field: a plain one, an internal one, and _id.
FlagNames == { Kflag, K_flag, K_id }

\* "true" and "false" in three letter cases.
Spellings ==
    { PyStr(s) : s \in { Strue, StrUpper(Strue), << "T", "r", "u", "e" >>,
                         Sfalse, StrUpper(Sfalse), << "F", "a", "l", "s", "e" >> } }

OneDoc(name, v) == PyList(<< PyDict(<< Item(name, v) >>) >>)

\* A run of main on one document with a bool on the left and one document
\* with a spelling in the same field on the right.
InitFlag ==
    \E both \in BOOLEAN, by \in { PyNone, PyStr(Kflag) }, name \in FlagNames,
       b \in BOOLEAN, s \in Spellings :
        \/ Start(TRUE, both, by,
                 Json(StdinObject(Json(OneDoc(name, PyBool(b))), Json(OneDoc(name, s)),
                                  Missing)),
                 Missing, Missing)
        \/ Start(FALSE, both, by, Malformed,
                 Json(OneDoc(name, PyBool(b))), Json(OneDoc(name, s)))

SpecFlag == InitFlag /\ [][Next]_vars

\* The field of the run, its bool and its string.
FlagName == mongo_docs.xs[1].xs[1].key
FlagBool == mongo_docs.xs[1].xs[1].val
FlagText == oracle_docs.xs[1].xs[1].val

\* The run is over with try-both, and the string spells the bool.
SpelledRunDone ==
    /\ pc = "done"
    /\ try_both
    /\ StrLower(FlagText.s) = (IF FlagBool.b THEN Strue ELSE Sfalse)

\* The name is one normalize_doc drops: it starts with _ and is not _id.
InternalName == FlagName[1] = "_" /\ FlagName # K_id

LooseMatchOfOne == Triple(TRUE, MatchMessage(FALSE, 1), "loose")

\* C6, as amended: with one document on each side, a field that
\* normalize_doc keeps (its name does not start with an underscore, or is
\* _id) and that holds the bool b on the left and "true" or "false" in any
\* letter case spelling b on the right fails the strict run with DOC_MISMATCH
\* and passes the loose one, so that compare_with_fallback returns
\* LOOSE_MATCH:count=1 as 'loose'; in a field with an internal name the two
\* are not compared, and it returns STRICT_MATCH:count=1 as 'strict'.
C6_BoolSpelling ==
    SpelledRunDone =>
        IF InternalName
        THEN /\ strict_result = Returns(TRUE, MatchMessage(TRUE, 1))
             /\ loose_result = NotRun
             /\ fallback = Triple(TRUE, MatchMessage(TRUE, 1), "strict")
        ELSE /\ ~strict_result.raised /\ ~strict_result.success
             /\ strict_result.message.prefix = "DOC_MISMATCH"
             /\ loose_result = Returns(TRUE, MatchMessage(FALSE, 1))
             /\ fallback = LooseMatchOfOne
             /\ stdout = MatchMessage(FALSE, 1)
             /\ exit_status = 0

\* {"flag": true} against {"flag": "TRUE"} has ended in the loose match.
C6_Witness ==
    /\ SpelledRunDone
    /\ FlagName = Kflag
    /\ FlagBool = PyBool(TRUE)
    /\ FlagText = PyStr(StrUpper(Strue))
    /\ fallback = LooseMatchOfOne

\* C6, as stated: whatever the field, the strict run fails with DOC_MISMATCH
\* and compare_with_fallback returns LOOSE_MATCH:count=1 as 'loose'.
C6_AsStated ==
    SpelledRunDone =>
        /\ strict_result.message.prefix = "DOC_MISMATCH"
        /\ fallback = LooseMatchOfOne

(***************************************************************************)
(* normalize_doc: the internal fields and the keys that meet               *)
(***************************************************************************)

\* The name with its quotes stripped, in upper case.
UpperName(k) == StrUpper(StripChars(StripChars(k, {"\""}), {"'"}))

\* C11: normalize_doc drops a field exactly when its name, the quotes
\* stripped and in upper case, begins with _ and is not _ID, and no key of
\* the document it returns begins with _.
C11_InternalDropped ==
    (Returned("normalize_doc") /\ IsDict(call.a)) =>
        /\ \A i \in 1..Len(call.a.xs) :
              (StartsWith(UpperName(call.a.xs[i].key), << "_" >>)
                 /\ UpperName(call.a.xs[i].key) # K_ID)
                <=> ~DictHas(ret[1], CanonicalKey(call.a.xs[i].key))
        /\ \A k \in DictKeys(ret[1]) : ~StartsWith(k, << "_" >>)

\* The fields of call.a that normalize_doc stores: those it does not skip.
StoredFields == { i \in 1..Len(call.a.xs) : ~IsSkipped(call.a.xs[i].key) }

\* The stored fields of call.a whose key is k.
FieldsOfKey(k) == { i \in StoredFields : CanonicalKey(call.a.xs[i].key) = k }

\* The last of a set of fields, in the order of the document.
LastOf(S) == CHOOSE i \in S : \A j \in S : j <= i

LeftNorm == NormalizeDoc(call.a, call.strict_types)
RightNorm == NormalizeDoc(call.b, call.strict_types)

\* What a side holds under key, a key that is not there being read as None.
ReadAs(d, key) == IF key \in DictKeys(d) THEN DictAt(d, key) ELSE PyNone

\* The keys of either side under which values_equal rejects the two values.
FailingKeys ==
    { key \in DictKeys(LeftNorm) \cup DictKeys(RightNorm) :
        ~ValuesEqual(ReadAs(LeftNorm, key), ReadAs(RightNorm, key), call.strict_types) }

\* A key one side lacks and the other holds with a value that is not None.
LackedKeys ==
    { key \in DictKeys(LeftNorm) \cup DictKeys(RightNorm) :
        \/ key \notin DictKeys(LeftNorm) /\ ~IsNone(DictAt(RightNorm, key))
        \/ key \notin DictKeys(RightNorm) /\ ~IsNone(DictAt(LeftNorm, key)) }

\* C13: docs_match returns (True, None) exactly when values_equal accepts, in
\* the mode of the call, the two values under every key of either normalized
\* document, a key that is missing on a side being read as None; a key that
\* one side lacks and the other holds with a value that is not None fails;
\* otherwise it returns False with the text of one failing key: the key, the
\* two values and the two type names.
C13_DocsMatch ==
    (Returned("docs_match") /\ IsDict(call.a) /\ IsDict(call.b)) =>
        /\ ~ret[1].raised
        /\ ret[1] = Matched <=> FailingKeys = {}
        /\ LackedKeys # {} => ret[1] # Matched
        /\ ret[1] # Matched =>
              \E key \in FailingKeys :
                  ret[1] = Returns(FALSE,
                               [ field |-> key,
                                 mongo_val |-> Str(ReadAs(LeftNorm, key)),
                                 mongo_type |-> TypeName(ReadAs(LeftNorm, key)),
                                 oracle_val |-> Str(ReadAs(RightNorm, key)),
                                 oracle_type |-> TypeName(ReadAs(RightNorm, key)) ])

\* {"a": 1} against {"a": 1, "b": null} has matched in strict mode: the b
\* that is not there is read as None.
C13_Witness ==
    /\ Returned("docs_match")
    /\ call.strict_types
    /\ call.a = PyDict(<< Item(Ka, PyInt(One)) >>)
    /\ call.b = PyDict(<< Item(Ka, PyInt(One)), Item(Kb, PyNone) >>)
    /\ ret[1] = Matched

(***************************************************************************)
(* The verdict as a function of the inputs                                 *)
(***************************************************************************)

\* A run of main on one document on each side, with the fields a and b.
InitFields ==
    \E both \in BOOLEAN, by \in SortBys, m \in TwoFieldDocs, o \in TwoFieldDocs :
        \/ Start(TRUE, both, by,
                 Json(StdinObject(Json(PyList(<< m >>)), Json(PyList(<< o >>)), Missing)),
                 Missing, Missing)
        \/ Start(FALSE, both, by, Malformed, Json(PyList(<< m >>)), Json(PyList(<< o >>)))

SpecFields == InitFields /\ [][Next]_vars

\* C14: the result of a run of compare_results, with the row and the field
\* of a DOC_MISMATCH, is the one result its two collections, its mode and its
\* sort key can give.
C14_Determined ==
    /\ strict_result # NotRun => StrictRuns = { strict_result }
    /\ loose_result # NotRun => LooseRuns = { loose_result }

(***************************************************************************)
(* The pairing of compare_results                                          *)
(***************************************************************************)

\* No sort key is given, and c is a list of documents of one field whose
\* name is none of the id names.
OneFieldDocs(c) ==
    /\ IsList(c)
    /\ \A i \in 1..Len(c.xs) :
          /\ IsDict(c.xs[i])
          /\ Len(c.xs[i].xs) = 1
          /\ \A n \in 1..Len(IdKeys) : c.xs[i].xs[1].key # IdKeys[n]

\* ys holds the elements of xs in some order.
IsPermutation(xs, ys) ==
    /\ Len(xs) = Len(ys)
    /\ \E f \in [ 1..Len(xs) -> 1..Len(xs) ] :
          /\ \A i, j \in 1..Len(xs) : i # j => f[i] # f[j]
          /\ \A i \in 1..Len(xs) : ys[f[i]] = xs[i]

\* The run has no sort key and two collections of one-field documents, the
\* right one a permutation of the left one.
PermutedRun ==
    /\ ~Truthy(sort_by)
    /\ OneFieldDocs(mongo_docs)
    /\ OneFieldDocs(oracle_docs)
    /\ IsPermutation(mongo_docs.xs, oracle_docs.xs)

\* Any two documents of the collection whose first values have one string
\* form, a document and itself included, pass docs_match.
SameTextDocsMatch(strict_types) ==
    \A i, j \in 1..Len(mongo_docs.xs) :
        Str(mongo_docs.xs[i].xs[1].val) = Str(mongo_docs.xs[j].xs[1].val)
            => DocsMatch(mongo_docs.xs[i], mongo_docs.xs[j], strict_types) = { Matched }

\* C15, as amended: with no sort key and no id name, the documents are paired
\* by the string form of their first value, documents of one string form
\* keeping their input order; so for two collections of one-field documents,
\* the right one a permutation of the left one, compare_results returns a
\* match whenever any two documents of one string form match each other in
\* the mode of the run.
C15_Permutation ==
    PermutedRun =>
        /\ (strict_result # NotRun /\ SameTextDocsMatch(TRUE))
              => strict_result = Returns(TRUE, MatchMessage(TRUE, Len(mongo_docs.xs)))
        /\ (loose_result # NotRun /\ SameTextDocsMatch(FALSE))
              => loose_result = Returns(TRUE, MatchMessage(FALSE, Len(mongo_docs.xs)))

\* [{"a": 1}, {"a": 2}] against [{"a": 2}, {"a": 1}] has matched.
C15_Witness ==
    /\ PermutedRun
    /\ mongo_docs = PyList(<< DocA1, DocA2 >>)
    /\ oracle_docs = PyList(<< DocA2, DocA1 >>)
    /\ strict_result = Returns(TRUE, MatchMessage(TRUE, 2))

\* C15, as stated: a permutation always gives a match.
C15_AsStated ==
    PermutedRun =>
        /\ strict_result # NotRun => strict_result.success
        /\ loose_result # NotRun => loose_result.success

\* The two collections of the run have one length, not 0: they are sorted.
SortedRun ==
    /\ HasLen(mongo_docs) /\ HasLen(oracle_docs)
    /\ PyLen(mongo_docs) = PyLen(oracle_docs)
    /\ PyLen(mongo_docs) > 0

\* Sorting one of the two collections raises.
SortingRaises ==
    ~Sorted(mongo_docs, sort_by).ok \/ ~Sorted(oracle_docs, sort_by).ok

\* The two collections in their input order.
InputOrder == [ mongo |-> PyIter(mongo_docs), oracle |-> PyIter(oracle_docs) ]

\* C16: when sorting raises for one of the two collections, the result of
\* compare_results is the one the loop gives on both collections in their
\* input order.
C16_InputOrder ==
    (SortedRun /\ SortingRaises) =>
        /\ strict_result # NotRun
              => strict_result \in CompareLoop(InputOrder, PyLen(mongo_docs), TRUE)
        /\ loose_result # NotRun
              => loose_result \in CompareLoop(InputOrder, PyLen(mongo_docs), FALSE)

(***************************************************************************)
(* The inputs of main                                                      *)
(***************************************************************************)

\* What the mongo side and the oracle side of the input hold, as JSON.
MongoGiven ==
    IF use_stdin
    THEN IF stdin_text.kind = "json" /\ IsDict(stdin_text.val)
         THEN DictGet(stdin_text.val, Kmongo, PyList(<<>>)) ELSE PyNone
    ELSE IF mongo_text.kind = "json" THEN mongo_text.val ELSE PyNone

OracleGiven ==
    IF use_stdin
    THEN IF stdin_text.kind = "json" /\ IsDict(stdin_text.val)
         THEN DictGet(stdin_text.val, Koracle, PyList(<<>>)) ELSE PyNone
    ELSE IF oracle_text.kind = "json" THEN oracle_text.val ELSE PyNone

\* C17: once main has read its inputs, a side that was given as one bare
\* document, the empty document included, is the collection of that one
\* document, on the mongo side and on the oracle side, from files and from
\* standard input.
C17_BareDocument ==
    pc = "compare" =>
        /\ IsDict(MongoGiven) => mongo_docs = PyList(<< MongoGiven >>)
        /\ IsDict(OracleGiven) => oracle_docs = PyList(<< OracleGiven >>)

\* The i-th pair of the run, in the order compare_results pairs them, passes
\* docs_match in the mode.
PairMatches(i, strict_types) ==
    DocsMatch(Paired(mongo_docs, oracle_docs, sort_by).mongo[i],
              Paired(mongo_docs, oracle_docs, sort_by).oracle[i], strict_types)
        = { Matched }

\* The result r of a run in the mode is the one of the first pair that fails:
\* a DOC_MISMATCH has the row of the first pair that does not match and the
\* text docs_match gives for it, and a match has all pairs matching, the
\* length as count and the label of the mode.
FirstFailure(r, strict_types) ==
    (r # NotRun /\ ~r.raised /\ SortedRun) =>
        /\ r.success <=> \A i \in 1..PyLen(mongo_docs) : PairMatches(i, strict_types)
        /\ r.success => r.message = MatchMessage(strict_types, PyLen(mongo_docs))
        /\ ~r.success =>
              /\ r.message.prefix = "DOC_MISMATCH"
              /\ r.message.row \in 0..(PyLen(mongo_docs) - 1)
              /\ ~PairMatches(r.message.row + 1, strict_types)
              /\ \A i \in 1..r.message.row : PairMatches(i, strict_types)
              /\ Returns(FALSE, r.message.diag)
                   \in DocsMatch(Paired(mongo_docs, oracle_docs, sort_by).mongo[r.message.row + 1],
                                 Paired(mongo_docs, oracle_docs, sort_by).oracle[r.message.row + 1],
                                 strict_types)

\* C18: a DOC_MISMATCH of compare_results has the smallest row, in the order
\* of the pairs after sorting, whose pair fails docs_match, every pair before
\* it matching; a match is returned only when all pairs match, with the
\* length of the left collection as count and STRICT_MATCH or LOOSE_MATCH by
\* the mode.
C18_FirstFailure ==
    /\ FirstFailure(strict_result, TRUE)
    /\ FirstFailure(loose_result, FALSE)

\* Two pairs fail, and the DOC_MISMATCH has row 0.
C18_Witness ==
    /\ mongo_docs = PyList(<< DocA1, DocA1 >>)
    /\ oracle_docs = PyList(<< DocA2, DocA2 >>)
    /\ strict_result # NotRun
    /\ strict_result.message.prefix = "DOC_MISMATCH"
    /\ strict_result.message.row = 0
    /\ loose_result.message.row = 0
    /\ loose_result.message.prefix = "DOC_MISMATCH"

(***************************************************************************)
(* C19: the errors of a comparison                                         *)
(***************************************************************************)

Set1 == PySet(One)
Set2 == PySet(2 * One)

\* Array elements of a direct call: two documents holding a set, which
\* json.dumps raises on, a bare set, which str() gives a text for, and 1.
UnsupportedElements == { FieldDoc(Set1), FieldDoc(Set2), Set1, PyInt(One) }
UnsupportedArrays ==
    { PyList(xs) : xs \in UNION { [ 1..m -> UnsupportedElements ] : m \in 1..MaxDocs } }

\* Direct calls on arrays with such elements, and docs_match on one of them
\* in the place of a document.
InitUnsupported ==
    \E s \in BOOLEAN, a \in UnsupportedArrays :
        \/ \E b \in UnsupportedArrays :
              \/ StartCall(Call("values_equal", a, b, s))
              \/ StartCall(Call("docs_match", FieldDoc(a), FieldDoc(b), s))
              \/ StartCall(Call("docs_match", a, FieldDoc(b), s))
              \/ StartCall(Call("docs_match", FieldDoc(a), b, s))
        \/ StartCall(Call("normalize_value", a, PyNone, s))
        \/ StartCall(Call("normalize_doc", FieldDoc(a), PyNone, s))

\* The runs of main together with these calls.
InitErrors == Init \/ InitUnsupported
NextErrors == Next \/ NextCall
SpecErrors == InitErrors /\ [][NextErrors]_vars

\* values_equal reaches the encoding of the elements of the two arrays, and
\* the encoding raises.
EncodingRaised(mongo_val, oracle_val) ==
    /\ IsList(mongo_val) /\ IsList(oracle_val)
    /\ ~PyEq(mongo_val, oracle_val)
    /\ Len(mongo_val.xs) = Len(oracle_val.xs)
    /\ ElementSetRaises(mongo_val) \/ ElementSetRaises(oracle_val)

\* docs_match was called on two documents, and the encoding raised under one
\* of their keys.
EncodingRaisedInDocs ==
    /\ Returned("docs_match")
    /\ IsDict(call.a) /\ IsDict(call.b)
    /\ \E key \in DictKeys(LeftNorm) \cup DictKeys(RightNorm) :
          EncodingRaised(ReadAs(LeftNorm, key), ReadAs(RightNorm, key))

\* A comparison of main raised.
ComparisonRaised == pc = "done" /\ (strict_result = Raises \/ loose_result = Raises)

\* C19: an error a comparison raises is reported by main as ERROR with exit
\* status 2 and never as a verdict, and docs_match on a value that is no
\* document raises to its caller; but an error raised while the elements of
\* two arrays are encoded never leaves values_equal: it is caught and passed
\* over, values_equal returns False, and docs_match returns a mismatch.
C19_Errors ==
    /\ ComparisonRaised => stdout = ErrorLine /\ exit_status = 2
    /\ (Returned("docs_match") /\ (~IsDict(call.a) \/ ~IsDict(call.b)))
          => ret[1] = Raises
    /\ (Returned("values_equal") /\ EncodingRaised(call.a, call.b))
          => ret[1] = PyBool(FALSE)
    /\ EncodingRaisedInDocs => ~ret[1].raised /\ ~ret[1].success

\* The two arrays hold the same elements in another order, one of them a
\* document json.dumps raises on, and docs_match returns a mismatch.
C19_Witness ==
    /\ EncodingRaisedInDocs
    /\ call.a = FieldDoc(PyList(<< FieldDoc(Set1), PyInt(One) >>))
    /\ call.b = FieldDoc(PyList(<< PyInt(One), FieldDoc(Set1) >>))
    /\ ~ret[1].raised /\ ~ret[1].success

\* C19, as stated: every error raised during a comparison, one raised while
\* array elements are encoded included, is reported as an error and never
\* becomes a verdict.
C19_AsStated ==
    /\ ComparisonRaised => stdout = ErrorLine /\ exit_status = 2
    /\ EncodingRaisedInDocs => ret[1] = Raises

(***************************************************************************)
(* C20: a comparison leaves its inputs alone                               *)
(***************************************************************************)

\* A step that runs compare_results: the one run of main, or the strict or
\* the loose run of compare_with_fallback.
ComparisonStep == pc \in { "compare", "loose" } /\ pc' # pc

\* The order of the left collection is not the order sorting gives it.
LeftOutOfOrder ==
    /\ IsList(mongo_docs)
    /\ Sorted(mongo_docs, sort_by).ok
    /\ Sorted(mongo_docs, sort_by).docs # mongo_docs.xs

TextTwin(x, y) ==
    /\ IsStr(x)
    /\ y.k \in { "int", "float", "bool", "none" }
    /\ x.s = Str(y)

\* Two arrays of one length that differ only where one holds a str and the
\* other its text twin, and do so somewhere.
DifferByTextTwins(x, y) ==
    /\ IsList(x) /\ IsList(y)
    /\ Len(x.xs) = Len(y.xs)
    /\ \A i \in 1..Len(x.xs) :
          x.xs[i] = y.xs[i] \/ TextTwin(x.xs[i], y.xs[i]) \/ TextTwin(y.xs[i], x.xs[i])
    /\ \E i \in 1..Len(x.xs) :
          TextTwin(x.xs[i], y.xs[i]) \/ TextTwin(y.xs[i], x.xs[i])

\* C21: in strict mode values_equal gives false for two arrays that differ
\* only in that one holds a str where the other holds a number, a bool or
\* None of the same text.
C21_StrictArrays ==
    (Returned("values_equal") /\ call.strict_types /\ DifferByTextTwins(call.a, call.b))
        => ret[1] = PyBool(FALSE)

(***************************************************************************)
(* C22: the order of the fields of a document                              *)
(***************************************************************************)

\* Documents in both orders of their two fields: {a: 1, b: 2}, {a: 2, b: 1}
\* and {id: 1, _id: 2}, whose two names meet in the key ID.
OrderDocs ==
    { PyDict(<< Item(Ka, PyInt(One)), Item(Kb, PyInt(2 * One)) >>),
      PyDict(<< Item(Kb, PyInt(2 * One)), Item(Ka, PyInt(One)) >>),
      PyDict(<< Item(Ka, PyInt(2 * One)), Item(Kb, PyInt(One)) >>),
      PyDict(<< Item(Kb, PyInt(One)), Item(Ka, PyInt(2 * One)) >>),
      PyDict(<< Item(Kid, PyInt(One)), Item(K_id, PyInt(2 * One)) >>),
      PyDict(<< Item(K_id, PyInt(2 * One)), Item(Kid, PyInt(One)) >>) }

\* A run of main on two collections of two such documents each.
InitOrder ==
    \E both \in BOOLEAN, by \in SortBys, m1 \in OrderDocs, m2 \in OrderDocs,
       o1 \in OrderDocs, o2 \in OrderDocs :
        \/ Start(TRUE, both, by,
                 Json(StdinObject(Json(PyList(<< m1, m2 >>)), Json(PyList(<< o1, o2 >>)),
                                  Missing)),
                 Missing, Missing)
        \/ Start(FALSE, both, by, Malformed,
                 Json(PyList(<< m1, m2 >>)), Json(PyList(<< o1, o2 >>)))

SpecOrder == InitOrder /\ [][Next]_vars

\* The documents that hold the fields of doc in one order or another.
FieldOrders(doc) ==
    { PyDict([ i \in 1..Len(doc.xs) |-> doc.xs[p[i]] ]) :
        p \in { q \in [ 1..Len(doc.xs) -> 1..Len(doc.xs) ] :
                  \A i, j \in 1..Len(doc.xs) : i # j => q[i] # q[j] } }

\* The collections that hold the documents of docs, in their order, each with
\* its fields in one order or another.
Reorderings(docs) ==
    { PyList(xs) : xs \in { ys \in [ 1..Len(docs.xs) -> OrderDocs ] :
                              \A i \in 1..Len(docs.xs) : ys[i] \in FieldOrders(docs.xs[i]) } }

\* The verdict of a result: a match, a count mismatch or a document mismatch.
Verdict(r) == [ raised |-> r.raised, success |-> r.success, prefix |-> r.message.prefix ]

\* The verdicts compare_results gives on the reordered collections.
ReorderedVerdicts(strict_types) ==
    { Verdict(r) : r \in UNION { CompareResults(m, o, sort_by, strict_types) :
                                   m \in Reorderings(mongo_docs),
                                   o \in Reorderings(oracle_docs) } }

\* C22: the verdict of a run of compare_results, with a sort key and without
\* one, is the verdict of compare_results on the same collections with the
\* fields of their documents in any other order.
C22_FieldOrder ==
    pc = "done" =>
        /\ strict_result # NotRun => ReorderedVerdicts(TRUE) = { Verdict(strict_result) }
        /\ loose_result # NotRun => ReorderedVerdicts(FALSE) = { Verdict(loose_result) }

(***************************************************************************)
(* C23: when main prints LOOSE_MATCH                                       *)
(***************************************************************************)

\* main has compared: it has read two collections and come to its end.
Compared == pc = "done" /\ strict_result # NotRun

\* C23: main prints LOOSE_MATCH only with --try-both and after a strict run
\* on the same inputs that gave DOC_MISMATCH; without --try-both it runs
\* compare_results once, in strict mode, and prints what that gives; with
\* --try-both a strict COUNT_MISMATCH is what is printed, and two empty
\* collections give STRICT_MATCH:count=0.
C23_LooseMatch ==
    /\ (pc = "done" /\ stdout.prefix = "LOOSE_MATCH") =>
          /\ try_both
          /\ strict_result \in StrictRuns
          /\ \A r \in StrictRuns :
                ~r.raised /\ ~r.success /\ r.message.prefix = "DOC_MISMATCH"
          /\ Returns(TRUE, stdout) \in LooseRuns
    /\ (Compared /\ ~try_both) =>
          /\ loose_result = NotRun
          /\ strict_result \in StrictRuns
          /\ stdout = IF strict_result.raised THEN ErrorLine ELSE strict_result.message
    /\ (Compared /\ try_both /\ HasLen(mongo_docs) /\ HasLen(oracle_docs)) =>
          /\ PyLen(mongo_docs) # PyLen(oracle_docs)
                => stdout = CountMismatchMessage(PyLen(mongo_docs), PyLen(oracle_docs))
          /\ (PyLen(mongo_docs) = 0 /\ PyLen(oracle_docs) = 0)
                => stdout = MatchMessage(TRUE, 0)

\* With --try-both, main has printed LOOSE_MATCH:count=1 for {"a": 1} against
\* {"a": "1"}, after a strict DOC_MISMATCH.
C23_Witness ==
    /\ pc = "done"
    /\ try_both
    /\ mongo_docs = PyList(<< DocA1 >>)
    /\ oracle_docs = PyList(<< DocAS1 >>)
    /\ strict_result.message.prefix = "DOC_MISMATCH"
    /\ stdout = MatchMessage(FALSE, 1)
    /\ exit_status = 0

(***************************************************************************)
(* C24: the loose mode against the strict mode                             *)
(***************************************************************************)

\* {"a": "nan"}
DocANan == PyDict(<< Item(Ka, PyStr(<< "n", "a", "n" >>)) >>)

\* A run of main on collections of {"a": 1}, {"a": "1"} and {"a": "nan"}.
InitLoose ==
    \E both \in BOOLEAN, by \in SortBys,
       m \in ListsOf({ DocA1, DocAS1, DocANan }, MaxDocs),
       o \in ListsOf({ DocA1, DocAS1, DocANan }, MaxDocs) :
        \/ Start(TRUE, both, by, Json(StdinObject(Json(m), Json(o), Missing)),
                 Missing, Missing)
        \/ Start(FALSE, both, by, Malformed, Json(m), Json(o))

SpecLoose == InitLoose /\ [][Next]_vars

\* C24: when the strict run of compare_results has returned a match, every
\* result of compare_results in loose mode on the same collections and sort
\* key is a match, with the same count.
C24_LooseAtLeastStrict ==
    (pc = "done" /\ strict_result # NotRun /\ ~strict_result.raised
       /\ strict_result.success)
        => \A r \in LooseRuns :
              /\ ~r.raised
              /\ r.success
              /\ r.message.count = strict_result.message.count

(***************************************************************************)
(* C25: the tolerance and the loose booleans below the top level           *)
(***************************************************************************)

\* The numbers 0.0, -0.0, 1.0, 1.0000004, 1.00005 and 1.0002.
DepthNumbers ==
    { PyFloat(0), PyNegZero, PyFloat(One), PyFloat(10000004), PyFloat(10000500),
      PyFloat(10002000) }

\* The numbers, True and "true".
DepthValues == DepthNumbers \cup { PyBool(TRUE), PyStr(Strue) }

\* Where a value is put: it is the field's value, or lies in a document, in
\* an array, or in a document in an array.
Depths == { "top", "doc", "array", "docs" }

At(depth, v) ==
    CASE depth = "top" -> v
      [] depth = "doc" -> PyDict(<< Item(Kb, v) >>)
      [] depth = "array" -> PyList(<< v >>)
      [] depth = "docs" -> PyList(<< PyDict(<< Item(Kb, v) >>) >>)

\* Direct calls on two values put at one depth.
InitDepth ==
    \E s \in BOOLEAN, d \in Depths, x \in DepthValues :
        \/ \E y \in DepthValues :
              \/ StartCall(Call("docs_match", FieldDoc(At(d, x)), FieldDoc(At(d, y)), s))
              \/ StartCall(Call("values_equal", At(d, x), At(d, y), s))
        \/ StartCall(Call("normalize_value", At(d, x), PyNone, s))
        \/ StartCall(Call("normalize_doc", FieldDoc(At(d, x)), PyNone, s))

SpecDepth == InitDepth /\ [][NextCall]_vars

\* docs_match has returned from {a: x at depth d} against {a: y at depth d}.
ComparedAt(d, x, y) ==
    /\ Returned("docs_match")
    /\ call.a = FieldDoc(At(d, x))
    /\ call.b = FieldDoc(At(d, y))

\* The number x after round(x, 6), and the distance of two such numbers.
Rounded(x) == NumOf(NormalizeValue(x, TRUE))
Distance(x, y) ==
    IF Rounded(x) >= Rounded(y) THEN Rounded(x) - Rounded(y) ELSE Rounded(y) - Rounded(x)

\* The string forms of the two numbers after normalization are identical.
SameText(x, y) == Str(NormalizeValue(x, TRUE)) = Str(NormalizeValue(y, TRUE))

\* What holds of two numbers whatever the array clause says: in a top-level
\* field they match within the tolerance, in a document (in an array or not)
\* exactly when they are equal after rounding to 6 decimals.
NumbersAtDepth(x, y) ==
    /\ ComparedAt("top", x, y) =>
          /\ Distance(x, y) < Tolerance => ret[1] = Matched
          /\ ret[1] = Matched => Distance(x, y) <= Tolerance
    /\ (ComparedAt("doc", x, y) \/ ComparedAt("docs", x, y)) =>
          (ret[1] = Matched <=> Rounded(x) = Rounded(y))

\* True against "true" matches in a top-level field in loose mode, and
\* nowhere else.
BoolsAtDepth(d) ==
    (ComparedAt(d, PyBool(TRUE), PyStr(Strue)) \/ ComparedAt(d, PyStr(Strue), PyBool(TRUE)))
        => (ret[1] = Matched <=> (d = "top" /\ ~call.strict_types))

\* C25, as amended: the tolerance and the loose boolean coercion act on the
\* values of top-level fields only.  Two numbers in a sub-document match
\* exactly when they are equal after rounding to 6 decimals; two numbers in an
\* array match exactly when they are equal after rounding or have one string
\* form, and 0.0 and -0.0 are equal with two string forms.  A difference of
\* 5e-5 is a mismatch below the top level and a match in a top-level field.
C25_Depth ==
    /\ \A x \in DepthNumbers, y \in DepthNumbers :
          /\ NumbersAtDepth(x, y)
          /\ ComparedAt("array", x, y) =>
                (ret[1] = Matched <=> (Rounded(x) = Rounded(y) \/ SameText(x, y)))
    /\ \A d \in Depths : BoolsAtDepth(d)
    /\ \A d \in Depths :
          ComparedAt(d, PyFloat(One), PyFloat(10000500)) =>
              (ret[1] = Matched <=> d = "top")

\* {a: {b: 1.0}} against {a: {b: 1.00005}} has failed docs_match.
C25_Witness ==
    /\ ComparedAt("doc", PyFloat(One), PyFloat(10000500))
    /\ ~ret[1].raised
    /\ ~ret[1].success

\* C25, as stated: two numbers in an array match only if their string forms
\* are identical.
C25_AsStated ==
    /\ \A x \in DepthNumbers, y \in DepthNumbers :
          /\ NumbersAtDepth(x, y)
          /\ ComparedAt("array", x, y) => (ret[1] = Matched => SameText(x, y))
    /\ \A d \in Depths : BoolsAtDepth(d)
    /\ \A d \in Depths :
          ComparedAt(d, PyFloat(One), PyFloat(10000500)) =>
              (ret[1] = Matched <=> d = "top")

====
